---- MODULE Spec2Model ----
(***************************************************************************)
(* medallion: JSON Web Tokens.  A model of the token codec of src/lib.rs,  *)
(* the crypto functions of src/crypt.rs and the time check of              *)
(* src/payload.rs.                                                         *)
(*                                                                         *)
(* Text is modelled as it is in the program: a Rust String / &str / &[u8]  *)
(* is a sequence of octets (0..255).  Option<T> is a sequence of length    *)
(* at most one (<<>> is None, <<v>> is Some(v)).  A Result is a record     *)
(* [st, v] with st one of "Ok", "Err", "Panic"; "Panic" is the unwinding   *)
(* of an unwrap() on an Err or of an index out of bounds.                  *)
(***************************************************************************)
EXTENDS Integers, Sequences, FiniteSets, TLC

\* ------------------------------------------------------------------------
\* Bounds of the model
\* ------------------------------------------------------------------------

\* The width of the payload's integers: u64 and i64 of src/payload.rs are
\* modelled as IntBits-bit unsigned and signed integers.
IntBits == 3

\* The clock runs over the seconds 0..MaxNow.
MaxNow == 3

\* The largest number of keys a KeySet holds.
MaxKeys == 2

\* ------------------------------------------------------------------------
\* Results and options
\* ------------------------------------------------------------------------

None == <<>>

Some(v) == <<v>>

Ok(v) == [st |-> "Ok", v |-> v]

Err(e) == [st |-> "Err", v |-> e]

Panic(what) == [st |-> "Panic", v |-> what]

IsOk(r) == r.st = "Ok"

IsErr(r) == r.st = "Err"

IsPanic(r) == r.st = "Panic"

\* ------------------------------------------------------------------------
\* Octets and ASCII
\* ------------------------------------------------------------------------

Ascii ==
  <<
    " ", "!", "\"", "#", "$", "%", "&", "'", "(", ")", "*", "+", ",", "-", ".", "/",
    "0", "1", "2", "3", "4", "5", "6", "7", "8", "9", ":", ";", "<", "=", ">", "?",
    "@", "A", "B", "C", "D", "E", "F", "G", "H", "I", "J", "K", "L", "M", "N", "O",
    "P", "Q", "R", "S", "T", "U", "V", "W", "X", "Y", "Z", "[", "\\", "]", "^", "_",
    "GRAVE", "a", "b", "c", "d", "e", "f", "g", "h", "i", "j", "k", "l", "m", "n", "o",
    "p", "q", "r", "s", "t", "u", "v", "w", "x", "y", "z", "{", "|", "}", "~"
  >>

\* The octet of a printable ASCII character.
Code(c) == 31 + CHOOSE i \in 1..Len(Ascii) : Ascii[i] = c

\* The octets of a string literal, written as a tuple of characters.
Str(cs) == [i \in 1..Len(cs) |-> Code(cs[i])]

Tail2(s, n) == SubSeq(s, n + 1, Len(s))

\* ------------------------------------------------------------------------
\* base64 (the base64 crate: encode_config / decode_config with URL_SAFE)
\* ------------------------------------------------------------------------

\* The URL-safe alphabet: the symbol of each six-bit value.
UrlSafeAlphabet ==
  Str(<<"A","B","C","D","E","F","G","H","I","J","K","L","M","N","O","P",
        "Q","R","S","T","U","V","W","X","Y","Z","a","b","c","d","e","f",
        "g","h","i","j","k","l","m","n","o","p","q","r","s","t","u","v",
        "w","x","y","z","0","1","2","3","4","5","6","7","8","9","-","_">>)

PadByte == Code("=")

Symbol(v) == UrlSafeAlphabet[v + 1]

IsSymbol(b) == \E i \in 1..64 : UrlSafeAlphabet[i] = b

Morsel(b) == (CHOOSE i \in 1..64 : UrlSafeAlphabet[i] = b) - 1

\* The octet at index i, or 0 past the end.
OctetAt(bs, i) == IF i <= Len(bs) THEN bs[i] ELSE 0

\* The symbols of the octets: each group of three octets gives four symbols,
\* a last group of one or two octets gives two or three.
EncodeSymbols(bs) ==
  [k \in 1..((Len(bs) * 4 + 2) \div 3) |->
     LET g  == (k - 1) \div 4
         r  == (k - 1) % 4
         b1 == OctetAt(bs, 3 * g + 1)
         b2 == OctetAt(bs, 3 * g + 2)
         b3 == OctetAt(bs, 3 * g + 3)
     IN  Symbol(CASE r = 0 -> b1 \div 4
                  [] r = 1 -> (b1 % 4) * 16 + b2 \div 16
                  [] r = 2 -> (b2 % 16) * 4 + b3 \div 64
                  [] r = 3 -> b3 % 64)]

Padding(n) ==
  IF n % 3 = 1 THEN <<PadByte, PadByte>>
  ELSE IF n % 3 = 2 THEN <<PadByte>>
  ELSE <<>>

\* encode_config(bytes, config): config.pad is TRUE for URL_SAFE and FALSE
\* for URL_SAFE_NO_PAD.
encode_config(bs, pad) ==
  EncodeSymbols(bs) \o (IF pad THEN Padding(Len(bs)) ELSE <<>>)

\* The number of trailing pad octets of a string.
RECURSIVE TrailingPads(_)
TrailingPads(s) ==
  IF Len(s) > 0 /\ s[Len(s)] = PadByte
    THEN 1 + TrailingPads(SubSeq(s, 1, Len(s) - 1))
    ELSE 0

\* The octets of a sequence of six-bit values; the bits left over in the last
\* group of 2 or 3 values are dropped.
DecodeMorsels(ms) ==
  [k \in 1..((Len(ms) * 3) \div 4) |->
     LET g == (k - 1) \div 3
         r == (k - 1) % 3
     IN  CASE r = 0 -> ms[4 * g + 1] * 4 + ms[4 * g + 2] \div 16
           [] r = 1 -> (ms[4 * g + 2] % 16) * 16 + ms[4 * g + 3] \div 4
           [] r = 2 -> (ms[4 * g + 3] % 4) * 64 + ms[4 * g + 4]]

\* Whether decoding rejects a last symbol with nonzero leftover bits. The
\* crate whose error type is Base64Error (error.rs imports it) does not.
TrailingBitsChecked == FALSE

\* The bits of the last symbol that belong to no octet.
TrailingBits(ms) ==
  IF Len(ms) % 4 = 2 THEN ms[Len(ms)] % 16
  ELSE IF Len(ms) % 4 = 3 THEN ms[Len(ms)] % 4
  ELSE 0

\* decode_config(input, config) of the crate, for either config: padding is
\* accepted and not required (crypt.rs decodes an unpadded signature with
\* URL_SAFE in tests::verify_data_hmac), a pad may only stand at the end of the
\* input after at least two symbols of its group of four, every other octet
\* must be a symbol of the alphabet, and a single symbol cannot end the input.
decode_config(s) ==
  LET Octets(ms) ==
        IF TrailingBitsChecked /\ TrailingBits(ms) # 0 THEN Err("Base64")
        ELSE Ok(DecodeMorsels(ms))
      Decoded(body, pads) ==
        IF \E i \in 1..Len(body) : ~IsSymbol(body[i]) THEN Err("Base64")
        ELSE IF pads > 0 /\ ((Len(body) % 4) < 2 \/ (Len(body) % 4) + pads > 4)
          THEN Err("Base64")
        ELSE IF Len(body) % 4 = 1 THEN Err("Base64")
        ELSE Octets([i \in 1..Len(body) |-> Morsel(body[i])])
  IN  Decoded(SubSeq(s, 1, Len(s) - TrailingPads(s)), TrailingPads(s))

\* ------------------------------------------------------------------------
\* UTF-8 (String::from_utf8) and JSON text (serde_json)
\* ------------------------------------------------------------------------

IsCont(b) == b \in 128..191

\* The number of continuation octets that follow a leading octet, or -1 for
\* an octet that cannot lead.
Following(b) ==
  IF b < 128 THEN 0
  ELSE IF b \in 194..223 THEN 1
  ELSE IF b \in 224..239 THEN 2
  ELSE IF b \in 240..244 THEN 3
  ELSE -1

\* Whether the octets from a leading octet at i are one well-formed sequence.
WellLed(bs, i) ==
  /\ Following(bs[i]) >= 0
  /\ i + Following(bs[i]) <= Len(bs)
  /\ \A j \in 1..Following(bs[i]) : IsCont(bs[i + j])
  /\ (bs[i] = 224 => bs[i + 1] >= 160)
  /\ (bs[i] = 237 => bs[i + 1] <= 159)
  /\ (bs[i] = 240 => bs[i + 1] >= 144)
  /\ (bs[i] = 244 => bs[i + 1] <= 143)

\* Whether the continuation octet at i belongs to a leading octet before it.
Led(bs, i) ==
  \E k \in 1..3 :
    /\ i - k >= 1
    /\ ~IsCont(bs[i - k])
    /\ Following(bs[i - k]) >= k
    /\ \A j \in (i - k + 1)..(i - 1) : IsCont(bs[j])

\* Whether the octets are well-formed UTF-8.
IsUtf8(bs) ==
  \A i \in 1..Len(bs) : IF IsCont(bs[i]) THEN Led(bs, i) ELSE WellLed(bs, i)

\* String::from_utf8
from_utf8(bs) == IF IsUtf8(bs) THEN Ok(bs) ELSE Err("Utf8")

Quote == Code("\"")

DigitChars == <<"0", "1", "2", "3", "4", "5", "6", "7", "8", "9">>

\* The decimal text of a natural number.
RECURSIVE Decimal(_)
Decimal(n) ==
  IF n < 10 THEN << Code(DigitChars[n + 1]) >>
  ELSE Decimal(n \div 10) \o << Code(DigitChars[(n % 10) + 1]) >>

\* A JSON string literal.  The strings of the model hold no quote, backslash
\* or control character, so nothing is escaped.
JsonString(s) == <<Quote>> \o s \o <<Quote>>

\* The text of an object with the given members (<<name, value text>>), in
\* their order: what serde_json::to_string writes for a struct or a map.
RECURSIVE JsonMembers(_)
JsonMembers(ms) ==
  IF Len(ms) = 0 THEN <<>>
  ELSE JsonString(ms[1][1]) \o <<Code(":")>> \o ms[1][2]
       \o (IF Len(ms) > 1 THEN <<Code(",")>> ELSE <<>>)
       \o JsonMembers(Tail2(ms, 1))

JsonObject(ms) == <<Code("{")>> \o JsonMembers(ms) \o <<Code("}")>>

\* --- reading JSON text -------------------------------------------------
\* A lexeme is [k, v]: k is "{", "}", ":", ",", "str", "num", "null" or "bad".
\* The reader covers the JSON the model's inputs are made of: objects whose
\* values are strings without escapes, natural numbers and null.

Lexeme(k, v) == [k |-> k, v |-> v]

IsSpace(b) == b \in {32, 9, 10, 13}

IsDigit(b) == b \in 48..57

\* The index of the first octet of s at or after i that satisfies no run
\* condition: the end of a run of digits starting at i.
RECURSIVE DigitRunEnd(_, _)
DigitRunEnd(s, i) ==
  IF i <= Len(s) /\ IsDigit(s[i]) THEN DigitRunEnd(s, i + 1) ELSE i

RECURSIVE DecimalValue(_)
DecimalValue(ds) ==
  IF Len(ds) = 0 THEN 0
  ELSE 10 * DecimalValue(SubSeq(ds, 1, Len(ds) - 1)) + (ds[Len(ds)] - 48)

\* The index of the closing quote of the string literal opened before i,
\* or 0 when there is none or the literal holds an escape or control octet.
RECURSIVE StringEnd(_, _)
StringEnd(s, i) ==
  IF i > Len(s) THEN 0
  ELSE IF s[i] = Quote THEN i
  ELSE IF s[i] = 92 \/ s[i] < 32 THEN 0
  ELSE StringEnd(s, i + 1)

NullText == Str(<<"n", "u", "l", "l">>)

RECURSIVE Lex(_)
Lex(s) ==
  IF Len(s) = 0 THEN <<>>
  ELSE IF IsSpace(s[1]) THEN Lex(Tail2(s, 1))
  ELSE IF s[1] \in {Code("{"), Code("}"), Code(":"), Code(","), Code("["), Code("]")} THEN
    << Lexeme(Ascii[s[1] - 31], 0) >> \o Lex(Tail2(s, 1))
  ELSE IF s[1] = Quote THEN
    LET Literal(e) ==
          IF e = 0 THEN << Lexeme("bad", 0) >>
          ELSE << Lexeme("str", SubSeq(s, 2, e - 1)) >> \o Lex(Tail2(s, e))
    IN  Literal(StringEnd(s, 2))
  ELSE IF IsDigit(s[1]) THEN
    LET Number(e) ==
          IF (s[1] = 48 /\ e > 2) \/ e > 9
               \/ (e <= Len(s) /\ s[e] \in {Code("."), Code("e"), Code("E")})
            THEN << Lexeme("bad", 0) >>
            ELSE << Lexeme("num", DecimalValue(SubSeq(s, 1, e - 1))) >>
                 \o Lex(Tail2(s, e - 1))
    IN  Number(DigitRunEnd(s, 1))
  ELSE IF Len(s) >= 4 /\ SubSeq(s, 1, 4) = NullText THEN
    << Lexeme("null", 0) >> \o Lex(Tail2(s, 4))
  ELSE << Lexeme("bad", 0) >>

IsValue(l) == l.k \in {"str", "num", "null"}

\* The members [key, val] read from the lexemes ls[i..] up to the closing
\* brace, which must be the last lexeme.
RECURSIVE ReadMembers(_, _, _)
ReadMembers(ls, i, acc) ==
  IF /\ i + 3 <= Len(ls)
     /\ ls[i].k = "str" /\ ls[i + 1].k = ":" /\ IsValue(ls[i + 2])
  THEN LET With(more) ==
             IF ls[i + 3].k = "}" THEN
               IF i + 3 = Len(ls) THEN Ok(more) ELSE Err("JSON")
             ELSE IF ls[i + 3].k = "," THEN ReadMembers(ls, i + 4, more)
             ELSE Err("JSON")
       IN  With(Append(acc, [key |-> ls[i].v, val |-> ls[i + 2]]))
  ELSE Err("JSON")

\* serde_json::from_str up to the point where the struct's visitor sees the
\* object's members.
ReadLexemes(ls) ==
  IF Len(ls) < 2 \/ ls[1].k # "{" THEN Err("JSON")
  ELSE IF ls[2].k = "}" THEN (IF Len(ls) = 2 THEN Ok(<<>>) ELSE Err("JSON"))
  ELSE ReadMembers(ls, 2, <<>>)

ReadObject(s) == ReadLexemes(Lex(s))

\* The indices of the members named name.
Named(ms, name) == {i \in 1..Len(ms) : ms[i].key = name}

\* The value of the one member named name.
ValueOf(ms, name) == ms[CHOOSE i \in Named(ms, name) : TRUE].val

\* ------------------------------------------------------------------------
\* Header and Payload (src/header.rs, src/payload.rs) and their serde forms
\* ------------------------------------------------------------------------

Algorithm == {"HS256", "HS384", "HS512", "RS256", "RS384", "RS512"}

\* The name serde writes for a variant of Algorithm.
AlgName(a) ==
  CASE a = "HS256" -> Str(<<"H", "S", "2", "5", "6">>)
    [] a = "HS384" -> Str(<<"H", "S", "3", "8", "4">>)
    [] a = "HS512" -> Str(<<"H", "S", "5", "1", "2">>)
    [] a = "RS256" -> Str(<<"R", "S", "2", "5", "6">>)
    [] a = "RS384" -> Str(<<"R", "S", "3", "8", "4">>)
    [] a = "RS512" -> Str(<<"R", "S", "5", "1", "2">>)

\* The unsigned integers of the payload (u64).
U64 == 0..(2^IntBits - 1)

\* Header { alg, headers }
Header(alg, headers) == [alg |-> alg, headers |-> headers]

\* impl Default for Header
Header_default == Header("HS256", None)

\* Payload { iss, sub, aud, exp, nbf, iat, jti, claims }
Payload(iss, sub, aud, exp, nbf, iat, jti, claims) ==
  [iss |-> iss, sub |-> sub, aud |-> aud, exp |-> exp, nbf |-> nbf,
   iat |-> iat, jti |-> jti, claims |-> claims]

\* #[derive(Default)] for Payload
Payload_default == Payload(None, None, None, None, None, None, None, None)

\* #[derive(Serialize)] for Header: alg is written, headers is skipped.
Header_serialize(h) ==
  JsonObject(<< <<Str(<<"a", "l", "g">>), JsonString(AlgName(h.alg))>> >>)

\* The member of an optional field: nothing when the field is None.
OptString(name, f) == IF f = None THEN <<>> ELSE << <<name, JsonString(f[1])>> >>

OptNumber(name, f) == IF f = None THEN <<>> ELSE << <<name, Decimal(f[1])>> >>

\* #[derive(Serialize)] for Payload: the fields that are Some, in the order
\* of declaration; claims is skipped.
Payload_serialize(p) ==
  JsonObject(OptString(Str(<<"i", "s", "s">>), p.iss)
             \o OptString(Str(<<"s", "u", "b">>), p.sub)
             \o OptString(Str(<<"a", "u", "d">>), p.aud)
             \o OptNumber(Str(<<"e", "x", "p">>), p.exp)
             \o OptNumber(Str(<<"n", "b", "f">>), p.nbf)
             \o OptNumber(Str(<<"i", "a", "t">>), p.iat)
             \o OptString(Str(<<"j", "t", "i">>), p.jti))

\* Whether the members hold an acceptable value for an Option<String> field
\* (absent, null or one string), and the field read from them.
StringFieldOk(ms, name) ==
  \/ Named(ms, name) = {}
  \/ Cardinality(Named(ms, name)) = 1 /\ ValueOf(ms, name).k \in {"str", "null"}

StringField(ms, name) ==
  IF Named(ms, name) = {} \/ ValueOf(ms, name).k = "null" THEN None
  ELSE Some(ValueOf(ms, name).v)

\* The same for an Option<u64> field.
NumberFieldOk(ms, name) ==
  \/ Named(ms, name) = {}
  \/ /\ Cardinality(Named(ms, name)) = 1
     /\ \/ ValueOf(ms, name).k = "null"
        \/ ValueOf(ms, name).k = "num" /\ ValueOf(ms, name).v \in U64

NumberField(ms, name) ==
  IF Named(ms, name) = {} \/ ValueOf(ms, name).k = "null" THEN None
  ELSE Some(ValueOf(ms, name).v)

\* The same for the Option<T> of the extension, T a struct: within the JSON
\* the model reads, only an absent or null member is acceptable.
ExtensionFieldOk(ms, name) ==
  \/ Named(ms, name) = {}
  \/ Cardinality(Named(ms, name)) = 1 /\ ValueOf(ms, name).k = "null"

\* #[derive(Deserialize)] for Header: alg must be there once and name an
\* Algorithm; members of other names are ignored.
Header_deserialize(s) ==
  LET Visit(r, name) ==
        IF ~IsOk(r) THEN r
        ELSE IF Cardinality(Named(r.v, name)) # 1 THEN Err("JSON")
        ELSE IF ValueOf(r.v, name).k # "str" THEN Err("JSON")
        ELSE IF \A a \in Algorithm : AlgName(a) # ValueOf(r.v, name).v
          THEN Err("JSON")
        ELSE IF ~ExtensionFieldOk(r.v, Str(<<"h", "e", "a", "d", "e", "r", "s">>))
          THEN Err("JSON")
        ELSE Ok(Header(CHOOSE a \in Algorithm : AlgName(a) = ValueOf(r.v, name).v,
                       None))
  IN  Visit(ReadObject(s), Str(<<"a", "l", "g">>))

\* #[derive(Deserialize)] for Payload: every field is optional.
Payload_deserialize(s) ==
  LET Visit(r, iss, sub, aud, exp, nbf, iat, jti) ==
        IF ~IsOk(r) THEN r
        ELSE IF /\ StringFieldOk(r.v, iss) /\ StringFieldOk(r.v, sub)
                /\ StringFieldOk(r.v, aud) /\ StringFieldOk(r.v, jti)
                /\ NumberFieldOk(r.v, exp) /\ NumberFieldOk(r.v, nbf)
                /\ NumberFieldOk(r.v, iat)
                /\ ExtensionFieldOk(r.v, Str(<<"c", "l", "a", "i", "m", "s">>))
          THEN Ok(Payload(StringField(r.v, iss), StringField(r.v, sub),
                          StringField(r.v, aud), NumberField(r.v, exp),
                          NumberField(r.v, nbf), NumberField(r.v, iat),
                          StringField(r.v, jti), None))
        ELSE Err("JSON")
  IN  Visit(ReadObject(s),
            Str(<<"i", "s", "s">>), Str(<<"s", "u", "b">>), Str(<<"a", "u", "d">>),
            Str(<<"e", "x", "p">>), Str(<<"n", "b", "f">>), Str(<<"i", "a", "t">>),
            Str(<<"j", "t", "i">>))

\* ------------------------------------------------------------------------
\* Component (src/lib.rs): the codec Token uses for its header and claims
\* ------------------------------------------------------------------------

\* The blanket impl covers every T: Serialize + Deserialize + Sized; T says
\* which of the two types of this model the codec is used at.
serde_json_from_str(T, s) ==
  IF T = "Header" THEN Header_deserialize(s) ELSE Payload_deserialize(s)

serde_json_to_string(T, v) ==
  IF T = "Header" THEN Header_serialize(v) ELSE Payload_serialize(v)

\* Component::from_base64 at type T.
Component_from_base64(T, raw) ==
  LET Text(s) == IF ~IsOk(s) THEN s ELSE serde_json_from_str(T, s.v)
      Data(data) == IF ~IsOk(data) THEN data ELSE Text(from_utf8(data.v))
  IN  Data(decode_config(raw))

\* Component::to_base64 at type T: serde_json's to_string does not fail for
\* these structs.
Component_to_base64(T, v) == Ok(encode_config(serde_json_to_string(T, v), TRUE))

\* ------------------------------------------------------------------------
\* The codecs of Header and Payload themselves (src/header.rs,
\* src/payload.rs): Header::to_base64, Header::from_base64 and the same for
\* Payload.  They work on a serde_json Map, whose keys are kept in order.
\* ------------------------------------------------------------------------

\* The names of the JSON members of the model and their text.
FieldNames ==
  {"alg", "aud", "exp", "iat", "iss", "jti", "kid", "nbf", "sub",
   "n", "e", "d", "p", "q", "dp", "dq", "qi", "k", "kty", "params", "keys"}

FieldText(n) ==
  CASE n = "alg" -> Str(<<"a", "l", "g">>)
    [] n = "aud" -> Str(<<"a", "u", "d">>)
    [] n = "exp" -> Str(<<"e", "x", "p">>)
    [] n = "iat" -> Str(<<"i", "a", "t">>)
    [] n = "iss" -> Str(<<"i", "s", "s">>)
    [] n = "jti" -> Str(<<"j", "t", "i">>)
    [] n = "kid" -> Str(<<"k", "i", "d">>)
    [] n = "nbf" -> Str(<<"n", "b", "f">>)
    [] n = "sub" -> Str(<<"s", "u", "b">>)
    [] n = "kty" -> Str(<<"k", "t", "y">>)
    [] n = "keys" -> Str(<<"k", "e", "y", "s">>)
    [] n = "params" -> Str(<<"p", "a", "r", "a", "m", "s">>)
    [] n = "dp" -> Str(<<"d", "p">>)
    [] n = "dq" -> Str(<<"d", "q">>)
    [] n = "qi" -> Str(<<"q", "i">>)
    [] n \in {"n", "e", "d", "p", "q", "k"} -> Str(<<n>>)

\* The extension type T of Header<T> and Payload<T>: the unit type (), or a
\* struct whose fields, all of type String, have the given names.  A value
\* of a struct type is a function from its field names to strings.
UnitType == [unit |-> TRUE, fields |-> {}]

StructType(fields) == [unit |-> FALSE, fields |-> fields]

\* The order of the keys of a Map (a BTreeMap of Strings): octet by octet.
LexLess(a, b) ==
  \E i \in 1..(Len(a) + 1) :
    /\ i <= Len(b)
    /\ \A j \in 1..(i - 1) : a[j] = b[j]
    /\ i = Len(a) + 1 \/ a[i] < b[i]

\* The names of S in the order of their text.
SortedNames(S) ==
  [i \in 1..Cardinality(S) |->
     CHOOSE n \in S :
       Cardinality({m \in S : LexLess(FieldText(m), FieldText(n))}) = i - 1]

\* serde_json::to_string of a Map from names to the texts of their values.
MapToString(m) ==
  LET Members(names) ==
        [i \in 1..Len(names) |-> <<FieldText(names[i]), m[names[i]]>>]
  IN  JsonObject(Members(SortedNames(DOMAIN m)))

\* A merge that keeps the entry of own when extra has the same key.  C14
\* tells it from Extend.
ExtendKeepingOwn(own, extra) ==
  [n \in (DOMAIN own) \cup (DOMAIN extra) |->
     IF n \in DOMAIN own THEN own[n] ELSE extra[n]]

\* Map::extend: the entries of extra replace those of own with the same key.
Extend(own, extra) ==
  [n \in (DOMAIN own) \cup (DOMAIN extra) |->
     IF n \in DOMAIN extra THEN extra[n] ELSE own[n]]

\* serde_json::to_value of a value of a struct extension type.
ExtensionMap(e) == [n \in DOMAIN e |-> JsonString(e[n])]

\* serde_json::to_value(&self) of a Header: headers is skipped.
HeaderMap(h) == [n \in {"alg"} |-> JsonString(AlgName(h.alg))]

\* serde_json::to_value(&self) of a Payload: the fields that are Some; claims
\* is skipped.
PayloadMap(p) ==
  [n \in {f \in {"iss", "sub", "aud", "exp", "nbf", "iat", "jti"} : p[f] # None} |->
     IF n \in {"exp", "nbf", "iat"} THEN Decimal(p[n][1]) ELSE JsonString(p[n][1])]

\* The common part of Header::to_base64 and Payload::to_base64: the map of
\* the extension, which must be an object, is merged into the map of the
\* fixed fields, and the text is encoded without padding.
MergedToBase64(T, own, extension) ==
  IF extension = None THEN Ok(encode_config(MapToString(own), FALSE))
  ELSE IF T.unit THEN Err("Custom")
  ELSE Ok(encode_config(MapToString(Extend(own, ExtensionMap(extension[1]))), FALSE))

\* Header::<T>::to_base64
Header_to_base64(T, self) == MergedToBase64(T, HeaderMap(self), self.headers)

\* Payload::<T>::to_base64
Payload_to_base64(T, self) == MergedToBase64(T, PayloadMap(self), self.claims)

\* A second parse that never yields an extension.  C15 tells it from
\* Extension_from_slice.
Extension_dropped(T, data) == None

\* serde_json::from_slice::<T>(&data).ok(): Some value of T when the object
\* holds each field of T once, as a string; members of other names are
\* ignored.  An object is never a value of the unit type.
Extension_from_slice(T, data) ==
  LET Visit(r) ==
        IF T.unit \/ ~IsOk(r) THEN None
        ELSE IF \A f \in T.fields :
                  /\ Cardinality(Named(r.v, FieldText(f))) = 1
                  /\ ValueOf(r.v, FieldText(f)).k = "str"
          THEN Some([f \in T.fields |-> ValueOf(r.v, FieldText(f)).v])
        ELSE None
  IN  IF IsUtf8(data) THEN Visit(ReadObject(data)) ELSE None

\* Header::<T>::from_base64
Header_from_base64(T, raw) ==
  LET Own(data, own) ==
        IF ~IsOk(own) THEN own
        ELSE Ok(Header(own.v.alg, Extension_from_slice(T, data)))
      Data(data) ==
        IF ~IsOk(data) THEN data
        ELSE IF ~IsUtf8(data.v) THEN Err("JSON")
        ELSE Own(data.v, Header_deserialize(data.v))
  IN  Data(decode_config(raw))

\* Payload::<T>::from_base64
Payload_from_base64(T, raw) ==
  LET Own(data, c) ==
        IF ~IsOk(c) THEN c
        ELSE Ok(Payload(c.v.iss, c.v.sub, c.v.aud, c.v.exp, c.v.nbf, c.v.iat,
                        c.v.jti, Extension_from_slice(T, data)))
      Data(data) ==
        IF ~IsOk(data) THEN data
        ELSE IF ~IsUtf8(data.v) THEN Err("JSON")
        ELSE Own(data.v, Payload_deserialize(data.v))
  IN  Data(decode_config(raw))

\* ------------------------------------------------------------------------
\* src/jwk/rsa.rs: RsaParams, the parameters of an RSA key as base64url text
\* ------------------------------------------------------------------------

\* BigNum::to_vec and BigNum::from_slice: the octets of a natural number,
\* most significant first, none for zero.
RECURSIVE ToVecLittleEndian(_)
ToVecLittleEndian(n) ==
  IF n = 0 THEN <<>> ELSE <<n % 256>> \o ToVecLittleEndian(n \div 256)

RECURSIVE ToVec(_)
ToVec(n) == IF n = 0 THEN <<>> ELSE ToVec(n \div 256) \o <<n % 256>>

RECURSIVE FromSlice(_)
FromSlice(bs) ==
  IF Len(bs) = 0 THEN 0
  ELSE 256 * FromSlice(SubSeq(bs, 1, Len(bs) - 1)) + bs[Len(bs)]

\* openssl::rsa::Rsa: each component is there or not.
Rsa(n, e, d, p, q, dp, dq, qi) ==
  [n |-> n, e |-> e, d |-> d, p |-> p, q |-> q, dp |-> dp, dq |-> dq, qi |-> qi]

\* struct RsaParams: n and e are Strings, the other six Option<String>.
RsaParams(n, e, d, p, q, dp, dq, qi) ==
  [n |-> n, e |-> e, d |-> d, p |-> p, q |-> q, dp |-> dp, dq |-> dq, qi |-> qi]

encode_param(param) == encode_config(ToVec(param), FALSE)

recover_param(param) ==
  LET Decoded(bytes) == IF IsOk(bytes) THEN Ok(FromSlice(bytes.v)) ELSE bytes
  IN  Decoded(decode_config(param))

recover_optional_param(param) ==
  IF param = None THEN Err("Custom") ELSE recover_param(param[1])

\* RsaParams::is_private_key
is_private_key(self) ==
  \A param \in {"d", "p", "q", "dp", "dq", "qi"} : self[param] # None

\* RsaParams::from_rsa; BigNum's % panics on a zero divisor.
from_rsa(rsa) ==
  IF rsa.n # None /\ rsa.e # None THEN
    IF rsa.d # None /\ rsa.p # None /\ rsa.q # None THEN
      LET Params(n, e, d, p, q) ==
            IF p = 1 \/ q = 1 THEN Panic("unwrap")
            ELSE Ok(RsaParams(encode_param(n), encode_param(e),
                              Some(encode_param(d)), Some(encode_param(p)),
                              Some(encode_param(q)),
                              Some(encode_param(d % (p - 1))),
                              Some(encode_param(q % (q - 1))),
                              Some(encode_param((q - 1) % p))))
      IN  Params(rsa.n[1], rsa.e[1], rsa.d[1], rsa.p[1], rsa.q[1])
    ELSE Ok(RsaParams(encode_param(rsa.n[1]), encode_param(rsa.e[1]),
                      None, None, None, None, None, None))
  ELSE Err("Custom")

\* The first error among results, or Ok of them all.
AllOk(results) ==
  IF \E i \in 1..Len(results) : ~IsOk(results[i])
    THEN results[CHOOSE i \in 1..Len(results) :
                   /\ ~IsOk(results[i])
                   /\ \A j \in 1..(i - 1) : IsOk(results[j])]
    ELSE Ok([i \in 1..Len(results) |-> results[i].v])

\* RsaParams::to_rsa, with Rsa::from_private_components and
\* Rsa::from_public_components, which take the numbers as they are.
to_rsa(self) ==
  LET Private(r) ==
        IF ~IsOk(r) THEN r
        ELSE Ok(Rsa(Some(r.v[1]), Some(r.v[2]), Some(r.v[3]), Some(r.v[4]),
                    Some(r.v[5]), Some(r.v[6]), Some(r.v[7]), Some(r.v[8])))
      Public(r) ==
        IF ~IsOk(r) THEN r
        ELSE Ok(Rsa(Some(r.v[1]), Some(r.v[2]), None, None, None, None, None, None))
  IN  IF is_private_key(self)
        THEN Private(AllOk(<<recover_param(self.n), recover_param(self.e),
                             recover_optional_param(self.d),
                             recover_optional_param(self.p),
                             recover_optional_param(self.q),
                             recover_optional_param(self.dp),
                             recover_optional_param(self.dq),
                             recover_optional_param(self.qi)>>))
        ELSE Public(AllOk(<<recover_param(self.n), recover_param(self.e)>>))

\* PEM text: what it is labelled as and the key it holds.
Pem(label, rsa) == [label |-> label, rsa |-> rsa]

Rsa_private_key_from_pem(pem) ==
  IF pem.label = "PRIVATE" THEN Ok(pem.rsa) ELSE Err("Crypto")

Rsa_public_key_from_pem(pem) ==
  IF pem.label = "PUBLIC" THEN Ok(pem.rsa) ELSE Err("Crypto")

\* Rsa::public_key_to_pem writes n and e.
public_key_to_pem(rsa) ==
  IF rsa.n = None \/ rsa.e = None THEN Err("Crypto")
  ELSE Ok(Pem("PUBLIC", Rsa(rsa.n, rsa.e, None, None, None, None, None, None)))

\* Rsa::private_key_to_pem writes all eight numbers and fails without them.
private_key_to_pem(rsa) ==
  IF \E c \in DOMAIN rsa : rsa[c] = None THEN Err("Crypto")
  ELSE Ok(Pem("PRIVATE", rsa))

\* RsaParams::from_public_key_pem
from_public_key_pem(pem) ==
  LET Pair(key_pair) == IF IsOk(key_pair) THEN from_rsa(key_pair.v) ELSE key_pair
  IN  Pair(Rsa_public_key_from_pem(pem))

\* RsaParams::from_private_key_pem
from_private_key_pem(pem) ==
  LET Pair(key_pair) == IF IsOk(key_pair) THEN from_rsa(key_pair.v) ELSE key_pair
  IN  Pair(Rsa_private_key_from_pem(pem))

\* RsaParams::to_public_key_pem
to_public_key_pem(self) ==
  LET Pair(key_pair) ==
        IF IsOk(key_pair) THEN public_key_to_pem(key_pair.v) ELSE key_pair
  IN  Pair(to_rsa(self))

\* RsaParams::to_private_key_pem
to_private_key_pem(self) ==
  LET Pair(key_pair) ==
        IF IsOk(key_pair) THEN private_key_to_pem(key_pair.v) ELSE key_pair
  IN  Pair(to_rsa(self))

\* serde_json::to_value of an RsaParams: n, e and the fields that are Some.
RsaParamsMap(self) ==
  [f \in {"n", "e"} \cup {g \in {"d", "p", "q", "dp", "dq", "qi"} : self[g] # None} |->
     JsonString(IF f \in {"n", "e"} THEN self[f] ELSE self[f][1])]

\* #[derive(Deserialize)] for RsaParams, on the members of an object: n and
\* e must be there once as strings; each of the others is optional.
RsaParams_visit(ms) ==
  LET Required(f) ==
        Cardinality(Named(ms, FieldText(f))) = 1
          /\ ValueOf(ms, FieldText(f)).k = "str"
      Optional(f) == StringField(ms, FieldText(f))
  IN  IF /\ Required("n") /\ Required("e")
         /\ \A f \in {"d", "p", "q", "dp", "dq", "qi"} :
              StringFieldOk(ms, FieldText(f))
        THEN Ok(RsaParams(ValueOf(ms, FieldText("n")).v,
                          ValueOf(ms, FieldText("e")).v,
                          Optional("d"), Optional("p"), Optional("q"),
                          Optional("dp"), Optional("dq"), Optional("qi")))
        ELSE Err("JSON")

\* serde_json::from_str::<RsaParams>
RsaParams_from_str(s) ==
  LET Visit(r) == IF IsOk(r) THEN RsaParams_visit(r.v) ELSE r
  IN  Visit(ReadObject(s))

\* ------------------------------------------------------------------------
\* src/jwk/octet.rs and src/jwk/mod.rs: OctetSequenceParams, Key<T>, KeySet
\* ------------------------------------------------------------------------

\* struct OctetSequenceParams
OctetSequenceParams(alg, k) == [alg |-> alg, k |-> k]

\* OctetSequenceParams::from_slice
OctetSequenceParams_from_slice(algorithm, bytes) ==
  OctetSequenceParams(algorithm, Some(encode_config(bytes, FALSE)))

\* impl Default for OctetSequenceParams
OctetSequenceParams_default == OctetSequenceParams("HS256", None)

\* struct Key<T>; KeyType is RSA or OCT.  T is named by ParamTypes.
KeyType == {"RSA", "OCT"}

KeyTypeName(kty) ==
  IF kty = "RSA" THEN Str(<<"R", "S", "A">>) ELSE Str(<<"O", "C", "T">>)

ParamTypes == {"RsaParams", "OctetSequenceParams"}

Jwk(kty, kid, params) == [kty |-> kty, kid |-> kid, params |-> params]

\* A member of a JSON object: its key and its value, a lexeme.
Member(key, val) == [key |-> key, val |-> val]

\* serde_json::Value::Object of members: a Map, which keeps one value per
\* key, the last one inserted, in the order of the keys.
ValueObject(ms) ==
  LET Last(key) == CHOOSE i \in Named(ms, key) : \A j \in Named(ms, key) : j <= i
      Keys == {ms[i].key : i \in 1..Len(ms)}
      Rank(key) == Cardinality({other \in Keys : LexLess(other, key)})
  IN  [r \in 1..Cardinality(Keys) |->
         ms[Last(CHOOSE key \in Keys : Rank(key) = r - 1)]]

\* serde_json::to_value(params): the Map of a value of T.
ParamsValue(T, v) ==
  IF T = "RsaParams"
    THEN ValueObject([i \in 1..Len(SortedNames(DOMAIN RsaParamsMap(v))) |->
           LET Field(f) ==
                 Member(FieldText(f),
                        Lexeme("str", IF f \in {"n", "e"} THEN v[f] ELSE v[f][1]))
           IN  Field(SortedNames(DOMAIN RsaParamsMap(v))[i])])
    ELSE ValueObject(<<Member(FieldText("alg"), Lexeme("str", AlgName(v.alg))),
                       Member(FieldText("k"),
                              IF v.k = None THEN Lexeme("null", 0)
                              ELSE Lexeme("str", v.k[1]))>>)

\* The members a nested params object would serialize to.  C20 tells them
\* from Key_serialize.
Key_serialize_nested(T, self) ==
  IF self.params = None THEN Err("JSON")
  ELSE Ok(<<Member(FieldText("kty"), Lexeme("str", KeyTypeName(self.kty))),
            Member(FieldText("kid"), Lexeme("str", self.kid)),
            Member(FieldText("params"), Lexeme("null", 0))>>)

\* impl Serialize for Key<T>: the entries kty and kid, then those of the
\* Map of params; an error without params.
Key_serialize(T, self) ==
  IF self.params = None THEN Err("JSON")
  ELSE Ok(<<Member(FieldText("kty"), Lexeme("str", KeyTypeName(self.kty))),
            Member(FieldText("kid"), Lexeme("str", self.kid))>>
          \o ParamsValue(T, self.params[1]))

\* The text serde_json writes for a value and for the members of an object.
LexemeText(l) ==
  IF l.k = "str" THEN JsonString(l.v)
  ELSE IF l.k = "num" THEN Decimal(l.v)
  ELSE NullText

MembersText(ms) ==
  JsonObject([i \in 1..Len(ms) |-> <<ms[i].key, LexemeText(ms[i].val)>>])

\* Key::to_string
Key_to_string(T, self) ==
  LET Text(ms) == IF IsOk(ms) THEN Ok(MembersText(ms.v)) ELSE ms
  IN  Text(Key_serialize(T, self))

\* #[derive(Deserialize)] for OctetSequenceParams, on the members of an
\* object: alg must name an Algorithm, k is optional.
OctetSequenceParams_visit(ms) ==
  LET Visit(alg, k) ==
        IF Cardinality(Named(ms, alg)) # 1 THEN Err("JSON")
        ELSE IF ValueOf(ms, alg).k # "str" THEN Err("JSON")
        ELSE IF \A a \in Algorithm : AlgName(a) # ValueOf(ms, alg).v
          THEN Err("JSON")
        ELSE IF ~StringFieldOk(ms, k) THEN Err("JSON")
        ELSE Ok(OctetSequenceParams(
                  CHOOSE a \in Algorithm : AlgName(a) = ValueOf(ms, alg).v,
                  StringField(ms, k)))
  IN  Visit(FieldText("alg"), FieldText("k"))

\* The two parses of Key::from_string and KeySet::pop on the members of one
\* object: the derived Deserialize of Key<T> (kty and kid are required,
\* params is an Option), then Option<T> from the same object; either error
\* is returned.
Key_visit(T, ms) ==
  LET Params(key, params) ==
        IF ~IsOk(params) THEN params
        ELSE Ok(Jwk(key.kty, key.kid, Some(params.v)))
      Key(kty, kid) ==
        IF Cardinality(Named(ms, kty)) # 1 \/ Cardinality(Named(ms, kid)) # 1
          THEN Err("JSON")
        ELSE IF ValueOf(ms, kty).k # "str" \/ ValueOf(ms, kid).k # "str"
          THEN Err("JSON")
        ELSE IF \A t \in KeyType : KeyTypeName(t) # ValueOf(ms, kty).v
          THEN Err("JSON")
        ELSE IF ~ExtensionFieldOk(ms, FieldText("params")) THEN Err("JSON")
        ELSE Params([kty |-> CHOOSE t \in KeyType : KeyTypeName(t) = ValueOf(ms, kty).v,
                     kid |-> ValueOf(ms, kid).v],
                    IF T = "RsaParams" THEN RsaParams_visit(ms)
                    ELSE OctetSequenceParams_visit(ms))
  IN  Key(FieldText("kty"), FieldText("kid"))

\* Key::from_string
Key_from_string(T, raw) ==
  LET Visit(r) == IF IsOk(r) THEN Key_visit(T, r.v) ELSE r
  IN  Visit(ReadObject(raw))

\* KeySet::new
KeySet_new == <<>>

\* KeySet::push: the keys after it; to_value(key).unwrap() panics on the
\* error of Key's Serialize.
KeySet_push(self, T, key) ==
  LET Value(ms) ==
        IF IsOk(ms) THEN Ok(Append(self, ValueObject(ms.v))) ELSE Panic("unwrap")
  IN  Value(Key_serialize(T, key))

\* A pop that takes the oldest entry.  C19 tells it from KeySet_pop.
KeySet_pop_front(self, T) ==
  IF Len(self) = 0 THEN [keys |-> self, out |-> Panic("unwrap")]
  ELSE [keys |-> Tail2(self, 1), out |-> Key_visit(T, self[1])]

\* A pop that decodes the last entry where it is and removes it only when
\* it decodes.  C28 tells it from KeySet_pop.
KeySet_pop_decoded(self, T) ==
  IF Len(self) = 0 THEN [keys |-> self, out |-> Panic("unwrap")]
  ELSE LET Taken(out) ==
             [keys |-> IF IsOk(out) THEN SubSeq(self, 1, Len(self) - 1) ELSE self,
              out |-> out]
       IN  Taken(Key_visit(T, self[Len(self)]))

\* KeySet::pop: the keys after it and what it returns; Vec::pop().unwrap()
\* panics on an empty set, and the entry is gone before it is decoded.
KeySet_pop(self, T) ==
  IF Len(self) = 0 THEN [keys |-> self, out |-> Panic("unwrap")]
  ELSE [keys |-> SubSeq(self, 1, Len(self) - 1),
        out |-> Key_visit(T, self[Len(self)])]

\* KeySet::to_string: {"keys":[...]} with each value as its object.
RECURSIVE JoinValues(_)
JoinValues(vs) ==
  IF Len(vs) = 0 THEN <<>>
  ELSE MembersText(vs[1])
       \o (IF Len(vs) > 1 THEN <<Code(",")>> ELSE <<>>)
       \o JoinValues(Tail2(vs, 1))

KeySet_to_string(self) ==
  Ok(<<Code("{")>> \o JsonString(FieldText("keys")) \o <<Code(":"), Code("[")>>
     \o JoinValues(self) \o <<Code("]"), Code("}")>>)

\* The positions of the octet c in s that are outside string literals
\* (literals hold no escapes in the JSON the model reads), in order.
Marks(s, c) ==
  LET Outside(i) == Cardinality({j \in 1..(i - 1) : s[j] = Quote}) % 2 = 0
      At == {i \in 1..Len(s) : s[i] = c /\ Outside(i)}
  IN  [r \in 1..Cardinality(At) |->
         CHOOSE i \in At : Cardinality({j \in At : j < i}) = r - 1]

\* The elements of an array of objects: the text up to each closing brace
\* is one object, after a comma for all but the first.
ReadValues(s) ==
  LET Element(ends, k) ==
        LET Object(ls) ==
              IF k = 1 THEN ReadLexemes(ls)
              ELSE IF Len(ls) = 0 \/ ls[1].k # "," THEN Err("JSON")
              ELSE ReadLexemes(Tail2(ls, 1))
        IN  Object(Lex(SubSeq(s, IF k = 1 THEN 1 ELSE ends[k - 1] + 1, ends[k])))
      Elements(ends) ==
        IF Len(ends) = 0
          THEN (IF Lex(s) = <<>> THEN Ok(<<>>) ELSE Err("JSON"))
        ELSE IF Lex(SubSeq(s, ends[Len(ends)] + 1, Len(s))) # <<>> THEN Err("JSON")
        ELSE IF \E k \in 1..Len(ends) : ~IsOk(Element(ends, k)) THEN Err("JSON")
        ELSE Ok([k \in 1..Len(ends) |-> ValueObject(Element(ends, k).v)])
  IN  Elements(Marks(s, Code("}")))

\* KeySet::from_string (derive Deserialize), for texts whose only member is
\* keys, an array of objects.
KeySet_from_string(raw) ==
  LET Read(opens, closes) ==
        IF Len(opens) = 0 \/ Len(closes) = 0 THEN Err("JSON")
        ELSE IF Lex(SubSeq(raw, 1, opens[1]))
                  # <<Lexeme("{", 0), Lexeme("str", FieldText("keys")),
                      Lexeme(":", 0), Lexeme("[", 0)>>
          THEN Err("JSON")
        ELSE IF Lex(SubSeq(raw, closes[Len(closes)], Len(raw)))
                  # <<Lexeme("]", 0), Lexeme("}", 0)>>
          THEN Err("JSON")
        ELSE ReadValues(SubSeq(raw, opens[1] + 1, closes[Len(closes)] - 1))
  IN  Read(Marks(raw, Code("[")), Marks(raw, Code("]")))

\* ------------------------------------------------------------------------
\* Keys, digests and the primitives of openssl
\* ------------------------------------------------------------------------
\* The octets of a key (key: &[u8]) are modelled by what they hold: pem says
\* whether they are a PEM block of an RSA private key ("private"), of an RSA
\* public key ("public") or no PEM at all ("none", e.g. a shared secret), and
\* id tells apart the key material (for PEM, the key pair).

Key(pem, id) == [pem |-> pem, id |-> id]

\* MessageDigest::sha256(), sha384(), sha512()
MessageDigest == {"sha256", "sha384", "sha512"}

\* The length of a digest, scaled from 32, 48 and 64 octets to lengths with
\* the same remainders modulo 3, which is what base64 padding depends on.
DigestLen(digest) ==
  CASE digest = "sha256" -> 2
    [] digest = "sha384" -> 3
    [] digest = "sha512" -> 4

\* The length of an RSA signature, scaled from 256 octets (a 2048 bit key).
RsaLen == 2 * 2

\* A checksum of the octets lo..hi of data, position by position.
RECURSIVE FoldRange(_, _, _)
FoldRange(data, lo, hi) ==
  IF lo > hi THEN 0
  ELSE IF lo = hi THEN (data[lo] * (lo + 2)) % 251
  ELSE LET mid == (lo + hi) \div 2
       IN  (FoldRange(data, lo, mid) + FoldRange(data, mid + 1, hi)) % 251

Fold(data) == FoldRange(data, 1, Len(data))

KeyTag(key) ==
  key.id + 4 * (CASE key.pem = "none" -> 0
                  [] key.pem = "private" -> 1
                  [] key.pem = "public" -> 2)

\* Signer over PKey::hmac(key): the MAC of data, a function of the digest,
\* the octets of the key and the data.
Hmac(digest, key, data) ==
  [j \in 1..DigestLen(digest) |->
     (Fold(data) + 17 * KeyTag(key) + 29 * j + 5 * DigestLen(digest)) % 256]

\* Signer over an RSA private key: the signature (PKCS#1 v1.5) is a function
\* of the digest, the key pair and the data.
RsaSignature(digest, id, data) ==
  [j \in 1..RsaLen |->
     (3 * Fold(data) + 11 * id + 7 * j + DigestLen(digest)) % 256]

\* Rsa::private_key_from_pem / Rsa::public_key_from_pem
private_key_from_pem(key) ==
  IF key.pem = "private" THEN Ok(key.id) ELSE Err("Crypto")

public_key_from_pem(key) ==
  IF key.pem = "public" THEN Ok(key.id) ELSE Err("Crypto")

\* openssl::memcmp::eq asserts that both slices have the same length.
memcmp_eq(a, b) == IF Len(a) # Len(b) THEN Panic("memcmp") ELSE Ok(a = b)

\* ------------------------------------------------------------------------
\* src/crypt.rs.  The functions return a String or a bool and unwrap every
\* Result on their way: the model's result is Ok(value) or Panic.
\* ------------------------------------------------------------------------

sign_hmac(data, key, digest) ==
  Ok(encode_config(Hmac(digest, key, data), TRUE))

sign_rsa(data, key, digest) ==
  LET Signer(private_key) ==
        IF ~IsOk(private_key) THEN Panic("unwrap")
        ELSE Ok(encode_config(RsaSignature(digest, private_key.v, data), TRUE))
  IN  Signer(private_key_from_pem(key))

verify_hmac(target, data, key, digest) ==
  LET Compared(target_bytes) ==
        IF ~IsOk(target_bytes) THEN Panic("unwrap")
        ELSE memcmp_eq(Hmac(digest, key, data), target_bytes.v)
  IN  Compared(decode_config(target))

verify_rsa(signature, data, key, digest) ==
  LET Verifier(signature_bytes, public_key) ==
        IF ~IsOk(signature_bytes) THEN Panic("unwrap")
        ELSE IF ~IsOk(public_key) THEN Panic("unwrap")
        ELSE Ok(signature_bytes.v = RsaSignature(digest, public_key.v, data))
  IN  Verifier(decode_config(signature), public_key_from_pem(key))

\* The digest and the family of an algorithm, as its name tells them.
DigestOf(alg) ==
  CASE alg \in {"HS256", "RS256"} -> "sha256"
    [] alg \in {"HS384", "RS384"} -> "sha384"
    [] alg \in {"HS512", "RS512"} -> "sha512"

IsHmac(alg) == alg \in {"HS256", "HS384", "HS512"}

\* crypt::sign and crypt::verify: the dispatch on the algorithm.
crypt_sign(data, key, algorithm) ==
  CASE algorithm = "HS256" -> sign_hmac(data, key, "sha256")
    [] algorithm = "HS384" -> sign_hmac(data, key, "sha384")
    [] algorithm = "HS512" -> sign_hmac(data, key, "sha512")
    [] algorithm = "RS256" -> sign_rsa(data, key, "sha256")
    [] algorithm = "RS384" -> sign_rsa(data, key, "sha384")
    [] algorithm = "RS512" -> sign_rsa(data, key, "sha512")

crypt_verify(target, data, key, algorithm) ==
  CASE algorithm = "HS256" -> verify_hmac(target, data, key, "sha256")
    [] algorithm = "HS384" -> verify_hmac(target, data, key, "sha384")
    [] algorithm = "HS512" -> verify_hmac(target, data, key, "sha512")
    [] algorithm = "RS256" -> verify_rsa(target, data, key, "sha256")
    [] algorithm = "RS384" -> verify_rsa(target, data, key, "sha384")
    [] algorithm = "RS512" -> verify_rsa(target, data, key, "sha512")

\* ------------------------------------------------------------------------
\* src/lib.rs: Token
\* ------------------------------------------------------------------------

Dot == Code(".")

\* str::split('.'): the pieces between the dots, in order.
RECURSIVE Split(_)
Split(s) ==
  IF \A i \in 1..Len(s) : s[i] # Dot THEN << s >>
  ELSE LET At(d) == << SubSeq(s, 1, d - 1) >> \o Split(Tail2(s, d))
       IN  At(CHOOSE i \in 1..Len(s) :
                s[i] = Dot /\ \A j \in 1..(i - 1) : s[j] # Dot)

\* A split in two at the first dot instead of the last.  C1 tells it from
\* RSplit2.
SplitAtFirstDot(s) ==
  IF \A i \in 1..Len(s) : s[i] # Dot THEN << s >>
  ELSE LET At(d) == << Tail2(s, d), SubSeq(s, 1, d - 1) >>
       IN  At(CHOOSE i \in 1..Len(s) :
                s[i] = Dot /\ \A j \in 1..(i - 1) : s[j] # Dot)

\* str::rsplitn(2, '.'): the piece after the last dot, then the rest; one
\* piece when there is no dot.
RSplit2(s) ==
  IF \A i \in 1..Len(s) : s[i] # Dot THEN << s >>
  ELSE LET At(d) == << Tail2(s, d), SubSeq(s, 1, d - 1) >>
       IN  At(CHOOSE i \in 1..Len(s) :
                s[i] = Dot /\ \A j \in (i + 1)..Len(s) : s[j] # Dot)

Token(raw, header, claims) == [raw |-> raw, header |-> header, claims |-> claims]

\* Token::new
Token_new(header, claims) == Token(None, header, claims)

\* #[derive(Default)] for Token
Token_default == Token(None, Header_default, Payload_default)

\* Token::parse.  The fields are evaluated in order: the header is decoded
\* before pieces[1] is indexed.
Token_parse(raw) ==
  LET Claims(header, claims) ==
        IF ~IsOk(claims) THEN claims
        ELSE Ok(Token(Some(raw), header.v, claims.v))
      Fields(pieces, header) ==
        IF ~IsOk(header) THEN header
        ELSE IF Len(pieces) < 2 THEN Panic("index")
        ELSE Claims(header, Component_from_base64("Payload", pieces[2]))
      Pieces(pieces) ==
        Fields(pieces, Component_from_base64("Header", pieces[1]))
  IN  Pieces(Split(raw))

\* Token::verify_hmac with the two pieces in each other's place: the part
\* before the last dot as sig, the last segment as data.  C24 tells it from
\* Token_verify_hmac.
Token_verify_hmac_swapped(self, key, digest) ==
  IF self.raw = None THEN Ok(FALSE)
  ELSE LET Pieces(pieces) ==
             IF Len(pieces) < 2 THEN Panic("index")
             ELSE verify_hmac(pieces[2], pieces[1], key, digest)
       IN  Pieces(RSplit2(self.raw[1]))

\* Token::verify_hmac
Token_verify_hmac(self, key, digest) ==
  IF self.raw = None THEN Ok(FALSE)
  ELSE LET Pieces(pieces) ==
             IF Len(pieces) < 2 THEN Panic("index")
             ELSE verify_hmac(pieces[1], pieces[2], key, digest)
       IN  Pieces(RSplit2(self.raw[1]))

\* Token::verify_rsa without its early return for an absent raw: the slicing
\* runs on an empty string.  C7 tells it from Token_verify_rsa.
Token_verify_rsa_unguarded(self, key, digest) ==
  LET Pieces(pieces) ==
        IF Len(pieces) < 2 THEN Panic("index")
        ELSE verify_rsa(pieces[1], pieces[2], key, digest)
  IN  Pieces(RSplit2(IF self.raw = None THEN <<>> ELSE self.raw[1]))

\* Token::verify_rsa
Token_verify_rsa(self, key, digest) ==
  IF self.raw = None THEN Ok(FALSE)
  ELSE LET Pieces(pieces) ==
             IF Len(pieces) < 2 THEN Panic("index")
             ELSE verify_rsa(pieces[1], pieces[2], key, digest)
       IN  Pieces(RSplit2(self.raw[1]))

\* Token::verify with the SHA-256 arm of each family for every algorithm.
\* C13 tells it from Token_verify.
Token_verify_sha256(self, key) ==
  CASE self.header.alg \in {"HS256", "HS384", "HS512"} ->
         Token_verify_hmac(self, key, "sha256")
    [] self.header.alg \in {"RS256", "RS384", "RS512"} ->
         Token_verify_rsa(self, key, "sha256")

\* Token::verify
Token_verify(self, key) ==
  CASE self.header.alg = "HS256" -> Token_verify_hmac(self, key, "sha256")
    [] self.header.alg = "HS384" -> Token_verify_hmac(self, key, "sha384")
    [] self.header.alg = "HS512" -> Token_verify_hmac(self, key, "sha512")
    [] self.header.alg = "RS256" -> Token_verify_rsa(self, key, "sha256")
    [] self.header.alg = "RS384" -> Token_verify_rsa(self, key, "sha384")
    [] self.header.alg = "RS512" -> Token_verify_rsa(self, key, "sha512")

\* The string both signed_hmac and signed_rsa sign: "{header}.{claims}".
SigningInput(self) ==
  Component_to_base64("Header", self.header).v \o <<Dot>>
    \o Component_to_base64("Payload", self.claims).v

\* Token::signed_hmac
Token_signed_hmac(self, key, digest) ==
  LET Signature(data, sig) ==
        IF ~IsOk(sig) THEN sig ELSE Ok(data \o <<Dot>> \o sig.v)
      Data(data) == Signature(data, sign_hmac(data, key, digest))
  IN  Data(SigningInput(self))

\* Token::signed_rsa
Token_signed_rsa(self, key, digest) ==
  LET Signature(data, sig) ==
        IF ~IsOk(sig) THEN sig ELSE Ok(data \o <<Dot>> \o sig.v)
      Data(data) == Signature(data, sign_rsa(data, key, digest))
  IN  Data(SigningInput(self))

\* Token::signed
Token_signed(self, key) ==
  CASE self.header.alg = "HS256" -> Token_signed_hmac(self, key, "sha256")
    [] self.header.alg = "HS384" -> Token_signed_hmac(self, key, "sha384")
    [] self.header.alg = "HS512" -> Token_signed_hmac(self, key, "sha512")
    [] self.header.alg = "RS256" -> Token_signed_rsa(self, key, "sha256")
    [] self.header.alg = "RS384" -> Token_signed_rsa(self, key, "sha384")
    [] self.header.alg = "RS512" -> Token_signed_rsa(self, key, "sha512")

\* impl PartialEq for Token
Token_eq(self, other) ==
  self.header = other.header /\ self.claims = other.claims

\* ------------------------------------------------------------------------
\* src/payload.rs: Payload::verify
\* ------------------------------------------------------------------------

\* A conversion that keeps the value of exp_sec and nbf_sec instead of
\* reinterpreting its bits as an i64.  C27 tells it from AsI64.
WithoutWrap(u) == u

\* u64 as i64
AsI64(u) == IF u >= 2^(IntBits - 1) THEN u - 2^IntBits ELSE u

\* Timespec { sec, nsec } and its derived order.
Timespec(sec, nsec) == <<sec, nsec>>

\* An order on Timespec that compares nsec before sec.  C26 tells it from
\* TimespecLt.
TimespecLtNsecFirst(a, b) == a[2] < b[2] \/ (a[2] = b[2] /\ a[1] < b[1])

TimespecLt(a, b) == a[1] < b[1] \/ (a[1] = b[1] /\ a[2] < b[2])

\* Payload::verify, with the instant time::now() returns.
Payload_verify(self, instant) ==
  LET nbf_verified == IF self.nbf # None
                        THEN TimespecLt(Timespec(AsI64(self.nbf[1]), 0), instant)
                        ELSE TRUE
      exp_verified == IF self.exp # None
                        THEN TimespecLt(instant, Timespec(AsI64(self.exp[1]), 0))
                        ELSE TRUE
  IN  nbf_verified /\ exp_verified

\* ------------------------------------------------------------------------
\* The inputs of the model
\* ------------------------------------------------------------------------

Alice == Str(<<"a", "l", "i", "c", "e">>)

\* An extension value (the T of Header<T> and Payload<T>).
Extension == [kid |-> Str(<<"k", "1">>)]

\* A payload valid from second 1 (exclusive) to second 2 (exclusive): at the
\* instant the token flow runs at, Timespec(MaxNow, 0), it has expired.
WindowPayload == Payload(None, Some(Alice), None, Some(2), Some(1), None, None, None)

ExtendedPayload == Payload(None, None, None, None, None, None, None, Some(Extension))

\* The (header, claims) pairs a caller builds tokens from.
SampleTokens ==
  {<<Header(a, None), Payload_default>> : a \in Algorithm}
    \cup {<<Header(a, None), WindowPayload>> : a \in {"HS256", "RS256"}}
    \cup {<<Header("HS256", Some(Extension)), Payload_default>>,
          <<Header("HS256", None), ExtendedPayload>>}

\* The keys callers hold: two secrets, a private key PEM, the public key PEM
\* of the same pair and the public key PEM of another pair.
Secret1 == Key("none", 1)

Secret2 == Key("none", 2)

Private1 == Key("private", 1)

Public1 == Key("public", 1)

Public2 == Key("public", 2)

SignKeys == {Secret1, Private1}

VerifyKeys == {Secret1, Secret2, Private1, Public1, Public2}

\* The unpadded base64 text of a string literal.
B64(cs) == encode_config(Str(cs), FALSE)

HeaderSegment == B64(<<"{", "\"", "a", "l", "g", "\"", ":", "\"", "H", "S", "2", "5", "6", "\"", "}">>)

EmptyObjectSegment == B64(<<"{", "}">>)

\* Strings handed to Token::parse that no call of signed produced.
ParseInputs ==
  { HeaderSegment,
    Str(<<"a", "b", "c">>),
    Str(<<"!", "!">>) \o <<Dot>> \o EmptyObjectSegment,
    HeaderSegment \o <<Dot>> \o Str(<<"!">>),
    B64(<<"{">>) \o <<Dot>> \o EmptyObjectSegment,
    HeaderSegment \o <<Dot>> \o B64(<<"[">>),
    EmptyObjectSegment \o <<Dot>> \o EmptyObjectSegment,
    HeaderSegment \o <<Dot>> \o EmptyObjectSegment,
    HeaderSegment \o <<Dot>> \o EmptyObjectSegment \o <<Dot>> \o Str(<<"!">>),
    HeaderSegment \o <<Dot>> \o EmptyObjectSegment \o <<Dot>>
      \o Str(<<"A", "A", "A">>) \o <<Dot>> \o Str(<<"x">>) }

\* The ways one octet of a signature is changed in flight: the lowest or the
\* highest bit of a symbol's value is flipped, or the octet is replaced by
\* one outside the alphabet or by a pad.
TamperKinds == {"low", "high", "bang", "pad"}

Tampered(b, kind) ==
  CASE kind = "bang" -> Code("!")
    [] kind = "pad"  -> PadByte
    [] kind = "low"  ->
         IF IsSymbol(b)
           THEN Symbol(IF Morsel(b) % 2 = 0 THEN Morsel(b) + 1 ELSE Morsel(b) - 1)
           ELSE Code("A")
    [] kind = "high" ->
         IF IsSymbol(b) THEN Symbol((Morsel(b) + 32) % 64) ELSE Code("B")

\* The index of the first octet of the last segment of s.
SignatureStart(s) == Len(s) - Len(RSplit2(s)[1]) + 1

\* ------------------------------------------------------------------------
\* State
\* ------------------------------------------------------------------------

VARIABLES
  token,     \* the Token the caller holds, if any (an Option)
  wire,      \* the signed string in flight, if any (an Option)
  sent,      \* the last successful signing: the token, the key, the string
  result,    \* the last operation, its key or input and what it returned
  payload,   \* the payload whose time validity is checked
  now,       \* the clock: the Timespec time::now() returns
  valid,     \* the last result of Payload::verify, if any (an Option)
  component, \* the Header or Payload a caller encodes, with its type
  segment,   \* the last string to_base64 returned, if any (an Option)
  codec,     \* the last codec operation and what it returned
  rsa,       \* the openssl Rsa key a caller holds, if any (an Option)
  params,    \* the RsaParams a caller holds, if any (an Option)
  keys,      \* KeySet.keys: the Vec of JSON values
  pushed,    \* the keys pushed and not popped since, oldest first
  jwk,       \* the last operation on a key or key set and what it returned
  call,      \* the operation and arguments two callers invoke, if any
  pc,        \* where each of the two callers is in its invocation
  ret,       \* what each of the two callers got back, and when
  aside      \* the last invocation of a third caller and what it returned

vars ==
  <<token, wire, sent, result, payload, now, valid, component, segment, codec,
    rsa, params, keys, pushed, jwk, call, pc, ret, aside>>

tokenVars == <<token, wire, sent, result>>

timeVars == <<payload, now, valid>>

codecVars == <<component, segment, codec>>

\* The variables of the concurrent callers.
callVars == <<call, pc, ret, aside>>

\* The variables of the operations that are neither Token's nor the clock's.
restVars == <<codecVars, rsa, params, keys, pushed, jwk, callVars>>

\* The variables of everything but the keys of src/jwk.
otherVars == <<tokenVars, timeVars, codecVars, callVars>>

\* No key is held and no operation on keys has run.
JwkIdle ==
  /\ rsa = None
  /\ params = None
  /\ keys = <<>>
  /\ pushed = <<>>
  /\ jwk = [op |-> "init", out |-> Ok(TRUE)]

\* The two callers of one operation; no caller has invoked anything.
Callers == {1, 2}

CallIdle ==
  /\ call = None
  /\ pc = [c \in Callers |-> "idle"]
  /\ ret = [c \in Callers |-> None]
  /\ aside = None

\* No codec operation has run and no value is held.
CodecIdle ==
  /\ component = None
  /\ segment = None
  /\ codec = [op |-> "init", out |-> Ok(TRUE)]

Outcome(op, key, inp, out) == [op |-> op, key |-> key, inp |-> inp, out |-> out]

Init ==
  /\ token = None
  /\ wire = None
  /\ sent = None
  /\ result = Outcome("init", None, None, Ok(TRUE))
  /\ payload = Payload_default
  /\ now = Timespec(MaxNow, 0)
  /\ valid = None
  /\ CodecIdle
  /\ JwkIdle
  /\ CallIdle

\* A caller builds a token: Token::new(header, claims).
New(hc) ==
  /\ token = None /\ wire = None /\ result.op = "init"
  /\ token' = Some(Token_new(hc[1], hc[2]))
  /\ result' = Outcome("new", None, None, Ok(TRUE))
  /\ UNCHANGED <<wire, sent, timeVars, restVars>>

\* A caller builds the default token.
Default ==
  /\ token = None /\ wire = None /\ result.op = "init"
  /\ token' = Some(Token_default)
  /\ result' = Outcome("default", None, None, Ok(TRUE))
  /\ UNCHANGED <<wire, sent, timeVars, restVars>>

\* A signed that stores the string it returns as the token's raw.  C9 tells
\* it from Signed.
SignedStoringRaw(key) ==
  /\ token # None /\ wire = None
  /\ \E out \in {Token_signed(token[1], key)} :
       /\ result' = Outcome("signed", Some(key), None, out)
       /\ IF IsOk(out)
            THEN /\ wire' = Some(out.v)
                 /\ sent' = Some([tok |-> token[1], key |-> key, out |-> out.v])
                 /\ token' = Some([token[1] EXCEPT !.raw = Some(out.v)])
            ELSE UNCHANGED <<token, wire, sent>>
  /\ UNCHANGED <<timeVars, restVars>>

\* token.signed(key): the string goes on the wire when there is one.
Signed(key) ==
  /\ token # None /\ wire = None
  /\ \E out \in {Token_signed(token[1], key)} :
       /\ result' = Outcome("signed", Some(key), None, out)
       /\ IF IsOk(out)
            THEN /\ wire' = Some(out.v)
                 /\ sent' = Some([tok |-> token[1], key |-> key, out |-> out.v])
            ELSE UNCHANGED <<wire, sent>>
  /\ UNCHANGED <<token, timeVars, restVars>>

\* The positions of the signature segment of the string in flight.
SignaturePositions ==
  IF wire = None THEN {} ELSE SignatureStart(wire[1])..Len(wire[1])

\* One octet of the signature segment of the string in flight is changed.
Tamper(i, kind) ==
  /\ wire # None /\ sent # None /\ wire[1] = sent[1].out
  /\ token # None /\ token[1].raw = None
  /\ i \in SignaturePositions
  /\ Tampered(wire[1][i], kind) # wire[1][i]
  /\ wire' = Some([wire[1] EXCEPT ![i] = Tampered(wire[1][i], kind)])
  /\ result' = Outcome("tamper", None, None, Ok(TRUE))
  /\ UNCHANGED <<token, sent, timeVars, restVars>>

\* The receiver parses the string in flight: Token::parse(raw).
Parse ==
  /\ wire # None /\ token # None /\ token[1].raw = None
  /\ \E out \in {Token_parse(wire[1])} :
       /\ result' = Outcome("parse", None, wire, out)
       /\ token' = IF IsOk(out) THEN Some(out.v) ELSE None
  /\ UNCHANGED <<wire, sent, timeVars, restVars>>

\* A caller parses a string that came from elsewhere.
ParseInput(raw) ==
  /\ token = None /\ wire = None /\ result.op = "init"
  /\ \E out \in {Token_parse(raw)} :
       /\ result' = Outcome("parse", None, Some(raw), out)
       /\ token' = IF IsOk(out) THEN Some(out.v) ELSE None
  /\ UNCHANGED <<wire, sent, timeVars, restVars>>

\* token.verify(key)
Verify(key) ==
  /\ token # None
  /\ result' = Outcome("verify", Some(key), None, Token_verify(token[1], key))
  /\ UNCHANGED <<token, wire, sent, timeVars, restVars>>

\* token == other, other being the token that was signed (which = "signed")
\* or the token parsed from the string as it was signed (which = "parsed").
Compare(which) ==
  /\ token # None /\ sent # None
  /\ \E other \in (IF which = "signed" THEN {sent[1].tok}
                    ELSE {r.v : r \in {x \in {Token_parse(sent[1].out)} : IsOk(x)}}) :
       result' = Outcome("eq", None, other.raw, Ok(Token_eq(token[1], other)))
  /\ UNCHANGED <<token, wire, sent, timeVars, restVars>>

Next ==
  \/ \E hc \in SampleTokens : New(hc)
  \/ Default
  \/ \E key \in SignKeys : Signed(key)
  \/ \E i \in SignaturePositions, kind \in TamperKinds : Tamper(i, kind)
  \/ Parse
  \/ \E raw \in ParseInputs : ParseInput(raw)
  \/ \E key \in VerifyKeys : Verify(key)
  \/ \E which \in {"signed", "parsed"} : Compare(which)

Spec == Init /\ [][Next]_vars

\* ------------------------------------------------------------------------
\* The time check of a payload against a running clock
\* ------------------------------------------------------------------------

OptU64 == {None} \cup {Some(u) : u \in U64}

\* The payloads whose time validity is checked: every nbf and exp.
TimePayloads ==
  {Payload(None, None, None, exp, nbf, None, None, None) :
     exp \in OptU64, nbf \in OptU64}

InitTime ==
  /\ token = None
  /\ wire = None
  /\ sent = None
  /\ result = Outcome("init", None, None, Ok(TRUE))
  /\ payload \in TimePayloads
  /\ now = Timespec(0, 0)
  /\ valid = None
  /\ CodecIdle
  /\ JwkIdle
  /\ CallIdle

\* The clock advances: the sub-second part is 0 or 1, the seconds stay at or
\* below MaxNow.
Tick ==
  /\ now[1] < MaxNow \/ now[2] = 0
  /\ now' = IF now[2] = 0 THEN Timespec(now[1], 1) ELSE Timespec(now[1] + 1, 0)
  /\ UNCHANGED <<tokenVars, restVars, payload, valid>>

\* payload.verify(): the result and the instant time::now() returned.
CheckTime ==
  /\ valid' = Some([at |-> now, out |-> Payload_verify(payload, now)])
  /\ UNCHANGED <<tokenVars, restVars, payload, now>>

NextTime == Tick \/ CheckTime

SpecTime == InitTime /\ [][NextTime]_vars

\* ------------------------------------------------------------------------
\* The codecs on their own: a caller encodes a Header or a Payload with
\* to_base64 and decodes the string with from_base64 of the same type.
\* ------------------------------------------------------------------------

\* Extension types: (), a struct without fields (EmptyClaim), and structs of
\* one String field, of which sub and alg are also names of fixed fields.
EmptyClaim == StructType({})

CustomHeaders == StructType({"kid"})

Bob == Str(<<"b", "o", "b">>)

\* Each type with the extension values a caller can hold of it.
Extensions(kind) ==
  { <<UnitType, None>>, <<UnitType, Some(<<>>)>>,
    <<EmptyClaim, None>>, <<EmptyClaim, Some([n \in {} |-> <<>>])>>,
    <<CustomHeaders, None>>, <<CustomHeaders, Some(Extension)>> }
  \cup (IF kind = "Header"
          THEN { <<StructType({"alg"}), Some([alg |-> AlgName("RS256")])>> }
          ELSE { <<StructType({"sub"}), Some([sub |-> Bob])>> })

SubPayload == Payload(None, Some(Alice), None, None, None, None, None, None)

CodecValues ==
  { [kind |-> "Header", T |-> e[1], v |-> Header(alg, e[2])] :
      alg \in Algorithm, e \in Extensions("Header") }
  \cup
  { [kind |-> "Payload", T |-> e[1], v |-> [p EXCEPT !.claims = e[2]]] :
      p \in {Payload_default, SubPayload, WindowPayload},
      e \in Extensions("Payload") }

to_base64(c) ==
  IF c.kind = "Header" THEN Header_to_base64(c.T, c.v)
  ELSE Payload_to_base64(c.T, c.v)

\* A from_base64 whose second parse is fatal: no value of T in the bytes is
\* an error.  C25 tells it from from_base64.
from_base64_strict(c, raw) ==
  LET Strict(out, extension) ==
        IF IsOk(out) /\ out.v[extension] = None THEN Err("JSON") ELSE out
  IN  IF c.kind = "Header"
        THEN Strict(Header_from_base64(c.T, raw), "headers")
        ELSE Strict(Payload_from_base64(c.T, raw), "claims")

from_base64(c, raw) ==
  IF c.kind = "Header" THEN Header_from_base64(c.T, raw)
  ELSE Payload_from_base64(c.T, raw)

InitCodec ==
  /\ token = None
  /\ wire = None
  /\ sent = None
  /\ result = Outcome("init", None, None, Ok(TRUE))
  /\ payload = Payload_default
  /\ now = Timespec(0, 0)
  /\ valid = None
  /\ component \in {Some(c) : c \in CodecValues}
  /\ segment = None
  /\ codec = [op |-> "init", out |-> Ok(TRUE)]
  /\ JwkIdle
  /\ CallIdle

\* value.to_base64()
ToBase64 ==
  /\ \E out \in {to_base64(component[1])} :
       /\ codec' = [op |-> "to_base64", out |-> out]
       /\ segment' = IF IsOk(out) THEN Some(out.v) ELSE segment
  /\ UNCHANGED <<tokenVars, timeVars, component, rsa, params, keys, pushed, jwk,
               callVars>>

\* T::from_base64(raw) on the string to_base64 returned
FromBase64 ==
  /\ segment # None
  /\ codec' = [op |-> "from_base64", out |-> from_base64(component[1], segment[1])]
  /\ UNCHANGED <<tokenVars, timeVars, component, segment, rsa, params, keys, pushed, jwk,
               callVars>>

\* Segments that no call of to_base64 produced: an empty object, a header
\* object, a header object with a kid, one whose kid is a number, a payload
\* object whose exp is a string, a text that is not JSON and a string that
\* is not base64.
DecodeInputs ==
  { EmptyObjectSegment,
    HeaderSegment,
    B64(<<"{", "\"", "a", "l", "g", "\"", ":", "\"", "H", "S", "2", "5", "6", "\"", ",",
          "\"", "k", "i", "d", "\"", ":", "\"", "k", "1", "\"", "}">>),
    B64(<<"{", "\"", "a", "l", "g", "\"", ":", "\"", "H", "S", "2", "5", "6", "\"", ",",
          "\"", "k", "i", "d", "\"", ":", "1", "}">>),
    B64(<<"{", "\"", "e", "x", "p", "\"", ":", "\"", "k", "1", "\"", "}">>),
    B64(<<"{">>),
    Str(<<"!">>) }

\* T::from_base64(raw) on a string that came from elsewhere
FromBase64Input(raw) ==
  /\ codec' = [op |-> "from_base64_input", raw |-> raw,
               out |-> from_base64(component[1], raw)]
  /\ UNCHANGED <<tokenVars, timeVars, component, segment, rsa, params, keys, pushed, jwk,
               callVars>>

NextCodec ==
  \/ ToBase64
  \/ FromBase64
  \/ \E raw \in DecodeInputs : FromBase64Input(raw)

SpecCodec == InitCodec /\ [][NextCodec]_vars

\* ------------------------------------------------------------------------
\* RSA keys and their parameters: a caller holds an Rsa key, derives
\* RsaParams from it, from its PEM or from JSON text, and turns RsaParams
\* back into a key or a PEM.
\* ------------------------------------------------------------------------

\* The multiplicative inverse of a modulo m.
Inverse(a, m) == CHOOSE x \in 1..(m - 1) : (a * x) % m = 1

\* A key as Rsa::generate makes it, from primes p > q and exponents e, d.
Generated(p, q, e, d) ==
  Rsa(Some(p * q), Some(e), Some(d), Some(p), Some(q),
      Some(d % (p - 1)), Some(d % (q - 1)), Some(Inverse(q, p)))

\* The public half of a key.
PublicOf(key) == Rsa(key.n, key.e, None, None, None, None, None, None)

\* Three key pairs, their public halves, a key that knows d but not its
\* primes, and a key without components.
RsaKeys ==
  LET Pairs == {Generated(61, 53, 17, 2753), Generated(19, 17, 5, 173),
                Generated(23, 11, 3, 147)}
  IN  Pairs \cup {PublicOf(key) : key \in Pairs}
        \cup {[PublicOf(key) EXCEPT !.d = key.d] : key \in Pairs}
        \cup {Rsa(None, None, None, None, None, None, None, None)}

\* The PEM texts a caller can have of a key.
PemsOf(key) ==
  LET Texts(r) == IF IsOk(r) THEN {r.v} ELSE {}
  IN  Texts(private_key_to_pem(key)) \cup Texts(public_key_to_pem(key))

\* params with the private fields outside keep set to None.
Keeping(self, keep) ==
  [f \in DOMAIN self |->
     IF f \in {"n", "e"} \cup keep THEN self[f] ELSE None]

\* JSON texts of the parameters of a key: the whole object, the object
\* without private members, and the object with d as its only private member.
ParamTexts(key) ==
  LET Texts(r) ==
        IF ~IsOk(r) THEN {}
        ELSE {MapToString(RsaParamsMap(Keeping(r.v, keep))) :
                keep \in {{}, {"d"}, {"d", "p", "q", "dp", "dq", "qi"}}}
  IN  Texts(from_rsa(key))

InitRsa ==
  /\ token = None
  /\ wire = None
  /\ sent = None
  /\ result = Outcome("init", None, None, Ok(TRUE))
  /\ payload = Payload_default
  /\ now = Timespec(0, 0)
  /\ valid = None
  /\ CodecIdle
  /\ rsa \in {Some(key) : key \in RsaKeys}
  /\ params = None
  /\ keys = <<>>
  /\ pushed = <<>>
  /\ jwk = [op |-> "init", out |-> Ok(TRUE)]
  /\ CallIdle

\* An operation that returns Result<RsaParams>: the caller keeps the value.
Obtain(op, out) ==
  /\ jwk' = [op |-> op, out |-> out]
  /\ params' = IF IsOk(out) THEN Some(out.v) ELSE params
  /\ UNCHANGED <<otherVars, rsa, keys, pushed>>

\* An operation on the RsaParams held.
Apply(op, out) ==
  /\ jwk' = [op |-> op, out |-> out]
  /\ UNCHANGED <<otherVars, rsa, params, keys, pushed>>

FromRsa == Obtain("from_rsa", from_rsa(rsa[1]))

FromPrivateKeyPem(pem) == Obtain("from_private_key_pem", from_private_key_pem(pem))

FromPublicKeyPem(pem) == Obtain("from_public_key_pem", from_public_key_pem(pem))

FromStr(raw) == Obtain("from_str", RsaParams_from_str(raw))

ToRsa == params # None /\ Apply("to_rsa", to_rsa(params[1]))

ToPublicKeyPem ==
  params # None /\ Apply("to_public_key_pem", to_public_key_pem(params[1]))

ToPrivateKeyPem ==
  params # None /\ Apply("to_private_key_pem", to_private_key_pem(params[1]))

NextRsa ==
  \/ FromRsa
  \/ \E pem \in PemsOf(rsa[1]) : FromPrivateKeyPem(pem)
  \/ \E pem \in PemsOf(rsa[1]) : FromPublicKeyPem(pem)
  \/ \E raw \in ParamTexts(rsa[1]) : FromStr(raw)
  \/ ToRsa
  \/ ToPublicKeyPem
  \/ ToPrivateKeyPem

SpecRsa == InitRsa /\ [][NextRsa]_vars

\* ------------------------------------------------------------------------
\* Keys and key sets: a caller pushes keys into a KeySet, pops them as a
\* type of its choice, writes the set as JSON and reads it back, and writes
\* and reads single keys.
\* ------------------------------------------------------------------------

Foo == Str(<<"f", "o", "o">>)

Bar == Str(<<"b", "a", "r">>)

Baz == Str(<<"b", "a", "z">>)

\* Keys with the type of their parameters: the RSA private and public key
\* and the octet key of the tests, an octet key without k, and a key
\* without params.
SampleKeys ==
  LET Pair == Generated(19, 17, 5, 173)
  IN  { [T |-> "RsaParams", key |-> Jwk("RSA", Foo, Some(from_rsa(Pair).v))],
        [T |-> "RsaParams", key |-> Jwk("RSA", Bar, Some(from_rsa(PublicOf(Pair)).v))],
        [T |-> "OctetSequenceParams",
         key |-> Jwk("OCT", Baz, Some(OctetSequenceParams_from_slice(
                                        "HS512", Str(<<"k", "e", "y">>))))],
        [T |-> "OctetSequenceParams",
         key |-> Jwk("OCT", Foo, Some(OctetSequenceParams_default))],
        [T |-> "RsaParams", key |-> Jwk("RSA", Baz, None)] }

InitKeys ==
  /\ token = None
  /\ wire = None
  /\ sent = None
  /\ result = Outcome("init", None, None, Ok(TRUE))
  /\ payload = Payload_default
  /\ now = Timespec(0, 0)
  /\ valid = None
  /\ CodecIdle
  /\ rsa = None
  /\ params = None
  /\ keys = KeySet_new
  /\ pushed = <<>>
  /\ jwk = [op |-> "init", out |-> Ok(TRUE)]
  /\ CallIdle

\* key_set.push(key)
Push(k) ==
  /\ Len(keys) < MaxKeys
  /\ \E out \in {KeySet_push(keys, k.T, k.key)} :
       /\ jwk' = [op |-> "push", out |-> IF IsOk(out) THEN Ok(TRUE) ELSE out]
       /\ keys' = IF IsOk(out) THEN out.v ELSE keys
       /\ pushed' = IF IsOk(out) THEN Append(pushed, k) ELSE pushed
  /\ UNCHANGED <<otherVars, rsa, params>>

\* key_set.pop::<T>()
Pop(T) ==
  /\ \E r \in {KeySet_pop(keys, T)} :
       /\ jwk' = [op |-> "pop", T |-> T, out |-> r.out,
                  top |-> IF Len(pushed) = 0 THEN None
                          ELSE Some(pushed[Len(pushed)])]
       /\ keys' = r.keys
  /\ pushed' = IF Len(pushed) = 0 THEN pushed
               ELSE SubSeq(pushed, 1, Len(pushed) - 1)
  /\ UNCHANGED <<otherVars, rsa, params>>

\* key_set.to_string()
KeySetToString ==
  /\ jwk' = [op |-> "to_string", out |-> KeySet_to_string(keys)]
  /\ UNCHANGED <<otherVars, rsa, params, keys, pushed>>

\* key_set = KeySet::from_string(raw), raw the text of the set
KeySetFromString(raw) ==
  /\ \E out \in {KeySet_from_string(raw)} :
       /\ jwk' = [op |-> "from_string", out |-> IF IsOk(out) THEN Ok(TRUE) ELSE out]
       /\ keys' = IF IsOk(out) THEN out.v ELSE keys
  /\ UNCHANGED <<otherVars, rsa, params, pushed>>

\* key.to_string()
KeyToString(k) ==
  /\ jwk' = [op |-> "key_to_string", key |-> k, out |-> Key_to_string(k.T, k.key)]
  /\ UNCHANGED <<otherVars, rsa, params, keys, pushed>>

\* Key::<T>::from_string(raw), raw the text key.to_string() returned
KeyFromString(T) ==
  /\ jwk.op = "key_to_string" /\ IsOk(jwk.out)
  /\ jwk' = [op |-> "key_from_string", key |-> jwk.key, T |-> T,
             out |-> Key_from_string(T, jwk.out.v)]
  /\ UNCHANGED <<otherVars, rsa, params, keys, pushed>>

NextKeys ==
  \/ \E k \in SampleKeys : Push(k)
  \/ \E T \in ParamTypes : Pop(T)
  \/ KeySetToString
  \/ \E raw \in {KeySet_to_string(keys).v} : KeySetFromString(raw)
  \/ \E k \in SampleKeys : KeyToString(k)
  \/ \E T \in ParamTypes : KeyFromString(T)

SpecKeys == InitKeys /\ [][NextKeys]_vars

\* ------------------------------------------------------------------------
\* Properties
\* ------------------------------------------------------------------------

\* A key of the kind the algorithm signs with: a secret for HMAC, the PEM of
\* an RSA private key for RSA.
KeyMatches(alg, key) ==
  IF IsHmac(alg) THEN key.pem = "none" ELSE key.pem = "private"

\* The key that verifies what key signed under alg.
VerifyingKey(alg, key) == IF IsHmac(alg) THEN key ELSE Key("public", key.id)

\* The caller holds the token parsed from the string exactly as it was signed.
HoldsParsedOriginal ==
  /\ token # None /\ sent # None
  /\ token[1].raw = Some(sent[1].out)

\* The caller holds the token parsed from a signed string of which one octet
\* of the signature was changed.
HoldsParsedTampered ==
  /\ token # None /\ sent # None /\ wire # None
  /\ wire[1] # sent[1].out
  /\ token[1].raw = wire

\* The last operation was verify with the key that matches the signing key.
VerifiedWithMatchingKey ==
  /\ result.op = "verify" /\ sent # None
  /\ result.key = Some(VerifyingKey(sent[1].tok.header.alg, sent[1].key))

\* C1: parsing the string that signed produced for Token::new(header, claims)
\* under a key matching the header's algorithm, and verifying with the
\* matching key, returns true whenever nbf and exp are absent or satisfied.
C1_RoundTrip ==
  ( /\ HoldsParsedOriginal
    /\ VerifiedWithMatchingKey
    /\ sent[1].tok.raw = None
    /\ KeyMatches(sent[1].tok.header.alg, sent[1].key)
    /\ Payload_verify(sent[1].tok.claims, now) )
  => (result.out.st = "Ok" /\ result.out.v = TRUE)

C1_Witness ==
  /\ HoldsParsedOriginal
  /\ VerifiedWithMatchingKey
  /\ sent[1].tok.raw = None
  /\ sent[1].tok.header.alg = "RS512"
  /\ sent[1].key = Private1
  /\ Payload_verify(sent[1].tok.claims, now)
  /\ result.out.st = "Ok" /\ result.out.v = TRUE

\* C2: verify on a parsed token returns true only when the payload's time
\* check holds as well as the signature check: a token whose exp is in the
\* past or whose nbf is in the future verifies false.
C2_VerifyChecksTime ==
  ( /\ result.op = "verify"
    /\ token # None /\ token[1].raw # None
    /\ ~Payload_verify(token[1].claims, now) )
  => (result.out.st = "Ok" /\ result.out.v = FALSE)

\* C3: after one octet of the signature segment was changed, parsing and
\* verifying with the correct key returns false.
C3_TamperedIsFalse ==
  (HoldsParsedTampered /\ VerifiedWithMatchingKey)
  => (result.out.st = "Ok" /\ result.out.v = FALSE)

\* Whether the key is of the kind of the other family: PEM octets for an
\* HMAC algorithm, no PEM for an RSA algorithm.
KeyMismatch(alg, key) ==
  IF IsHmac(alg) THEN key.pem # "none" ELSE key.pem = "none"

\* C4: signing under an RSA algorithm with secret octets, or under an HMAC
\* algorithm with RSA PEM octets, fails with an error value and produces no
\* signed string.
C4_MismatchIsError ==
  ( /\ result.op = "signed"
    /\ token # None
    /\ KeyMismatch(token[1].header.alg, result.key[1]) )
  => result.out.st = "Err"

\* The signature segment of the raw string of the token held.
HeldSignature == RSplit2(token[1].raw[1])[1]

\* C5: in verify, a malformed base64 signature or a malformed PEM key is
\* reported as an error value, neither as false nor as an abort.
C5_MalformedIsError ==
  ( /\ result.op = "verify"
    /\ token # None /\ token[1].raw # None
    /\ Len(RSplit2(token[1].raw[1])) = 2
    /\ \/ ~IsOk(decode_config(HeldSignature))
       \/ ~IsHmac(token[1].header.alg) /\ result.key[1].pem # "public" )
  => result.out.st = "Err"

\* Whether a string is not made of three parts of which the first two decode.
Malformed(raw) ==
  \/ Len(Split(raw)) # 3
  \/ ~IsOk(Component_from_base64("Header", Split(raw)[1]))
  \/ ~IsOk(Component_from_base64("Payload", Split(raw)[2]))

\* C6: Token::parse of a malformed input (wrong part count, a header or
\* payload that is not base64 of JSON) returns a decoding error.
C6_MalformedIsRejected ==
  (result.op = "parse" /\ Malformed(result.inp[1])) => result.out.st = "Err"

\* C7: verify on a token that was never parsed returns false, whatever the
\* algorithm and the key.
C7_UnparsedIsFalse ==
  (result.op = "verify" /\ token # None /\ token[1].raw = None)
  => (result.out.st = "Ok" /\ result.out.v = FALSE)

C7_Witness ==
  /\ result.op = "verify"
  /\ token # None /\ token[1].raw = None
  /\ token[1].header.alg = "RS256"
  /\ result.key = Some(Secret1)
  /\ result.out.st = "Ok" /\ result.out.v = FALSE

\* nbf is absent or strictly before the instant, and exp is absent or
\* strictly after it, both as the numbers the payload holds.
InWindow(p, instant) ==
  /\ p.nbf = None \/ TimespecLt(Timespec(p.nbf[1], 0), instant)
  /\ p.exp = None \/ TimespecLt(instant, Timespec(p.exp[1], 0))

\* C8: Payload::verify at an instant holds exactly when nbf is absent or
\* strictly before it and exp is absent or strictly after it.
C8_TimeValidity ==
  valid # None => (valid[1].out <=> InWindow(payload, valid[1].at))

\* C9: a token from Token::new has no raw, a token from parse has the input
\* as its raw, and signed, verify and == leave the token as it is.
C9_Lifecycle ==
  /\ [](result.op \in {"new", "default"} => token[1].raw = None)
  /\ []((result.op = "parse" /\ result.out.st = "Ok") => token[1].raw = result.inp)
  /\ [][result'.op \in {"signed", "verify", "eq"} => token' = token]_vars

C9_Witness ==
  /\ result.op = "verify"
  /\ HoldsParsedOriginal
  /\ sent[1].tok.raw = None

\* C10: the token parsed from what signed returned compares equal to the
\* token that was signed.
C10_ParsedEqualsSigned ==
  ( /\ result.op = "eq"
    /\ HoldsParsedOriginal
    /\ result.inp = None /\ sent[1].tok.raw = None )
  => (result.out.st = "Ok" /\ result.out.v = TRUE)

\* The extension type of a header or payload as the caller declared it: the
\* unit type when it carries no extension, else the struct of its fields.
TypeOf(extension) ==
  IF extension = None THEN UnitType ELSE StructType(DOMAIN extension[1])

\* The string of Section 4.2 for a token and a key: the codec's encoding of
\* the header, a dot, the codec's encoding of the payload, a dot, and the
\* signature of the two under the header's algorithm.
CodecSigned(tok, key) ==
  LET Signature(data, sig) ==
        IF ~IsOk(sig) THEN sig ELSE Ok(data \o <<Dot>> \o sig.v)
      Data(data) == Signature(data, crypt_sign(data, key, tok.header.alg))
      Segments(h, c) ==
        IF ~IsOk(h) THEN h ELSE IF ~IsOk(c) THEN c
        ELSE Data(h.v \o <<Dot>> \o c.v)
  IN  Segments(Header_to_base64(TypeOf(tok.header.headers), tok.header),
               Payload_to_base64(TypeOf(tok.claims.claims), tok.claims))

\* C11: the string that signed returns is the codec's encoding (flat object
\* with the extension merged, no padding) of the current header, a dot, the
\* codec's encoding of the current payload, a dot, and the signature of that
\* input under the header's algorithm.
C11_SignedIsCodecEncoding ==
  (result.op = "signed" /\ IsOk(result.out) /\ token # None)
  => LET Same(codec_signed) ==
           IsOk(codec_signed) /\ result.out.v = codec_signed.v
     IN  Same(CodecSigned(token[1], result.key[1]))

\* C12: the signature segment of a signed string holds no padding octet.
C12_SignatureUnpadded ==
  (result.op = "signed" /\ IsOk(result.out))
  => \A i \in SignatureStart(result.out.v)..Len(result.out.v) :
       result.out.v[i] # PadByte

\* The signature that the family and digest named by alg give for data.
NamedSignature(data, key, alg) ==
  IF IsHmac(alg) THEN sign_hmac(data, key, DigestOf(alg))
  ELSE sign_rsa(data, key, DigestOf(alg))

\* The verdict that the family and digest named by alg give.
NamedVerdict(pieces, key, alg) ==
  IF IsHmac(alg) THEN verify_hmac(pieces[1], pieces[2], key, DigestOf(alg))
  ELSE verify_rsa(pieces[1], pieces[2], key, DigestOf(alg))

\* C13: the algorithm alone fixes family and digest (HS* is HMAC, RS* is RSA,
\* the number is the SHA-2 digest), and the dispatch of crypt::sign,
\* crypt::verify, Token::signed and Token::verify agree on them.
C13_SameFamilyAndDigest ==
  /\ (result.op = "signed" /\ token # None)
     => LET Agree(data, sig, named) ==
              /\ sig.st = named.st /\ sig.v = named.v
              /\ result.out.st = sig.st
              /\ IsOk(result.out) => result.out.v = data \o <<Dot>> \o sig.v
            Sign(data, alg, key) ==
              Agree(data, crypt_sign(data, key, alg),
                    NamedSignature(data, key, alg))
        IN  Sign(SigningInput(token[1]), token[1].header.alg, result.key[1])
  /\ (result.op = "verify" /\ token # None
        /\ token[1].raw # None /\ Len(RSplit2(token[1].raw[1])) = 2)
     => LET Agree(verdict, named) ==
              /\ verdict.st = named.st /\ verdict.v = named.v
              /\ result.out.st = verdict.st /\ result.out.v = verdict.v
            Check(pieces, alg, key) ==
              Agree(crypt_verify(pieces[1], pieces[2], key, alg),
                    NamedVerdict(pieces, key, alg))
        IN  Check(RSplit2(token[1].raw[1]), token[1].header.alg, result.key[1])

\* A token signed under a digest other than SHA-256 was parsed and verified
\* true with the matching key.
C13_Witness ==
  /\ result.op = "verify" /\ HoldsParsedOriginal /\ VerifiedWithMatchingKey
  /\ token[1].header.alg \in {"HS384", "RS512"}
  /\ result.out = Ok(TRUE)

\* The fixed fields of a Header or Payload that are present, by name, as the
\* JSON values they stand for.
FixedFields(c) ==
  IF c.kind = "Header" THEN [n \in {"alg"} |-> Lexeme("str", AlgName(c.v.alg))]
  ELSE [n \in {f \in {"iss", "sub", "aud", "exp", "nbf", "iat", "jti"} :
                 c.v[f] # None} |->
          Lexeme(IF n \in {"exp", "nbf", "iat"} THEN "num" ELSE "str", c.v[n][1])]

\* The extension of a Header or Payload, if any.
ExtensionOf(c) == IF c.kind = "Header" THEN c.v.headers ELSE c.v.claims

\* The members of the JSON object that the string s encodes.
ObjectOf(s) ==
  LET Text(data) == IF IsOk(data) THEN ReadObject(data.v) ELSE data
  IN  Text(decode_config(s))

\* C14: to_base64 of a Header or Payload yields one flat JSON object: each
\* field of the extension is a member with the extension's value, also when
\* a fixed field has the same name; each other fixed field that is present
\* is a member with its value; there are no other members.
C14_FlatObjectExtensionWins ==
  (codec.op = "to_base64" /\ IsOk(codec.out))
  => LET Flat(ms, fixed, extra) ==
           /\ IsOk(ms)
           /\ Len(ms.v) = Cardinality((DOMAIN fixed) \cup (DOMAIN extra))
           /\ \A n \in DOMAIN extra :
                /\ Cardinality(Named(ms.v, FieldText(n))) = 1
                /\ ValueOf(ms.v, FieldText(n)) = Lexeme("str", extra[n])
           /\ \A n \in (DOMAIN fixed) \ (DOMAIN extra) :
                /\ Cardinality(Named(ms.v, FieldText(n))) = 1
                /\ ValueOf(ms.v, FieldText(n)) = fixed[n]
         Extra(e) == IF e = None THEN <<>> ELSE e[1]
     IN  Flat(ObjectOf(codec.out.v), FixedFields(component[1]),
              Extra(ExtensionOf(component[1])))

\* A payload with sub "alice" and the extension field sub "bob" was encoded,
\* and the object's sub is "bob".
C14_Witness ==
  /\ codec.op = "to_base64" /\ IsOk(codec.out)
  /\ component[1].kind = "Payload"
  /\ component[1].v.sub = Some(Alice)
  /\ component[1].v.claims = Some([sub |-> Bob])
  /\ ValueOf(ObjectOf(codec.out.v).v, FieldText("sub")) = Lexeme("str", Bob)

\* The names of the fixed fields of a Header or Payload, present or not.
FixedNames(kind) ==
  IF kind = "Header" THEN {"alg"}
  ELSE {"iss", "sub", "aud", "exp", "nbf", "iat", "jti"}

\* The value held can be told from its encoding: an extension that is
\* present has no field with the name of a fixed field; when none is
\* present, its type is not one that reads from the object of the fixed
\* fields alone.
Separable(c) ==
  IF ExtensionOf(c) # None
    THEN (DOMAIN ExtensionOf(c)[1]) \cap FixedNames(c.kind) = {}
    ELSE c.T.unit \/ \E f \in c.T.fields : f \notin FixedNames(c.kind)

\* from_base64 returned the value that was encoded.
DecodedIsEncoded ==
  /\ codec.out.st = "Ok"
  /\ codec.out.v = component[1].v

PrivateFields(self) ==
  {f \in {"d", "p", "q", "dp", "dq", "qi"} : self[f] # None}

\* C16: the RsaParams that from_rsa, from_private_key_pem,
\* from_public_key_pem and JSON parsing return have the six private fields
\* all present or all absent, and is_private_key is true exactly of those
\* with all six.
C16_AllOrNothing ==
  ( /\ jwk.op \in {"from_rsa", "from_private_key_pem", "from_public_key_pem",
                   "from_str"}
    /\ IsOk(jwk.out) )
  => /\ Cardinality(PrivateFields(jwk.out.v)) \in {0, 6}
     /\ is_private_key(jwk.out.v) <=> Cardinality(PrivateFields(jwk.out.v)) = 6

\* C17: to_rsa, to_public_key_pem and to_private_key_pem fail on an
\* RsaParams with some but not all private fields; to_rsa gives a private
\* key when all six are present and a public key when none is.
C17_PartialIsError ==
  (jwk.op \in {"to_rsa", "to_public_key_pem", "to_private_key_pem"})
  => LET Chosen(present) ==
           IF present = 6
             THEN jwk.op = "to_rsa" => (IsOk(jwk.out) /\ jwk.out.v.d # None)
           ELSE IF present = 0
             THEN jwk.op = "to_rsa" => (IsOk(jwk.out) /\ jwk.out.v.d = None)
           ELSE IsErr(jwk.out)
     IN  Chosen(Cardinality(PrivateFields(params[1])))

\* The RsaParams held are those of the key held, which has n, e, d, p and q.
ParamsOfPrivateKey ==
  /\ rsa # None /\ params # None
  /\ \A c \in {"n", "e", "d", "p", "q"} : rsa[1][c] # None
  /\ from_rsa(rsa[1]).st = "Ok"
  /\ from_rsa(rsa[1]).v = params[1]

\* C18: the RsaParams made from a private key are a private key, and to_rsa
\* of them gives a key with the same n, e, d, p and q.
C18_RsaRoundTrip ==
  (jwk.op = "to_rsa" /\ ParamsOfPrivateKey)
  => /\ is_private_key(params[1])
     /\ IsOk(jwk.out)
     /\ \A c \in {"n", "e", "d", "p", "q"} : jwk.out.v[c] = rsa[1][c]

\* to_rsa ran on the parameters of the key pair with the two-octet modulus.
C18_Witness ==
  /\ jwk.op = "to_rsa" /\ ParamsOfPrivateKey
  /\ rsa[1].n = Some(61 * 53)
  /\ IsOk(jwk.out) /\ jwk.out.v.d = rsa[1].d

\* The JSON value that stands for a key in a key set.
ValueOfKey(k) == ValueObject(Key_serialize(k.T, k.key).v)

\* C19: the entries of a KeySet are the keys pushed and not popped, oldest
\* first, also after the set was written to {"keys":[...]} and read back;
\* pop as the type of the most recently pushed of them returns that key.
C19_KeySetLifo ==
  /\ Len(keys) = Len(pushed)
  /\ \A i \in 1..Len(pushed) : keys[i] = ValueOfKey(pushed[i])
  /\ jwk.op = "from_string" => IsOk(jwk.out)
  /\ (jwk.op = "pop" /\ jwk.top # None /\ jwk.T = jwk.top[1].T)
     => (jwk.out.st = "Ok" /\ jwk.out.v = jwk.top[1].key)

\* The RSA key pushed after an octet key was popped; the octet key remains.
C19_Witness ==
  /\ jwk.op = "pop" /\ jwk.top # None
  /\ jwk.top[1].key.kty = "RSA" /\ jwk.T = "RsaParams"
  /\ jwk.out.st = "Ok" /\ jwk.out.v = jwk.top[1].key
  /\ Len(keys) = 1 /\ pushed[1].key.kty = "OCT"

\* The fields of the params of a key that are written, with their values.
WrittenParams(k) ==
  IF k.T = "RsaParams"
    THEN [f \in {"n", "e"} \cup PrivateFields(k.key.params[1]) |->
            Lexeme("str", IF f \in {"n", "e"} THEN k.key.params[1][f]
                          ELSE k.key.params[1][f][1])]
    ELSE [f \in {"alg", "k"} |->
            IF f = "alg" THEN Lexeme("str", AlgName(k.key.params[1].alg))
            ELSE IF k.key.params[1].k = None THEN Lexeme("null", 0)
            ELSE Lexeme("str", k.key.params[1].k[1])]

\* C20: to_string of a Key<T> with params is one flat JSON object whose
\* members are kty, kid and the fields of params, none of them named params;
\* Key::<T>::from_string of it is the key.
C20_JwkRoundTrip ==
  /\ (jwk.op = "key_to_string" /\ jwk.key.key.params # None)
     => LET Flat(ms, written) ==
              /\ IsOk(ms)
              /\ Len(ms.v) = 2 + Cardinality(DOMAIN written)
              /\ Named(ms.v, FieldText("params")) = {}
              /\ ValueOf(ms.v, FieldText("kty"))
                   = Lexeme("str", KeyTypeName(jwk.key.key.kty))
              /\ ValueOf(ms.v, FieldText("kid")) = Lexeme("str", jwk.key.key.kid)
              /\ \A f \in DOMAIN written :
                   /\ Cardinality(Named(ms.v, FieldText(f))) = 1
                   /\ ValueOf(ms.v, FieldText(f)) = written[f]
        IN  IsOk(jwk.out) /\ Flat(ReadObject(jwk.out.v), WrittenParams(jwk.key))
  /\ (jwk.op = "key_from_string" /\ jwk.T = jwk.key.T)
     => (jwk.out.st = "Ok" /\ jwk.out.v = jwk.key.key)

\* The RSA private key was written and read back.
C20_Witness ==
  /\ jwk.op = "key_from_string" /\ jwk.T = "RsaParams"
  /\ jwk.key.key.kty = "RSA" /\ is_private_key(jwk.key.key.params[1])
  /\ jwk.out.st = "Ok" /\ jwk.out.v = jwk.key.key

\* from_rsa or from_private_key_pem returned the parameters of a key that has
\* d, p and q.
DerivedFromPrivateKey ==
  /\ jwk.op \in {"from_rsa", "from_private_key_pem"}
  /\ IsOk(jwk.out)
  /\ jwk.out.v.dp # None /\ jwk.out.v.dq # None /\ jwk.out.v.qi # None
  /\ IsOk(recover_optional_param(jwk.out.v.d))
  /\ IsOk(recover_optional_param(jwk.out.v.p))
  /\ IsOk(recover_optional_param(jwk.out.v.q))

\* The number a field of the RsaParams returned stands for.
Derived(field) == recover_param(jwk.out.v[field][1]).v

\* C22: the CRT exponents of the parameters derived for a private key are
\* dp = d mod (p - 1) and dq = d mod (q - 1).
C22_CrtExponents ==
  DerivedFromPrivateKey
  => /\ Derived("dp") = Derived("d") % (Derived("p") - 1)
     /\ Derived("dq") = Derived("d") % (Derived("q") - 1)

\* C23: the CRT coefficient of the parameters derived for a private key is
\* the inverse of q modulo p: (qi * q) mod p = 1.
C23_CrtCoefficient ==
  DerivedFromPrivateKey
  => (Derived("qi") * Derived("q")) % Derived("p") = 1

\* The last operation was verify on a held token whose raw has a dot.
VerifiedRawWithDot ==
  /\ result.op = "verify" /\ result.key # None
  /\ token # None /\ token[1].raw # None
  /\ Len(Split(token[1].raw[1])) >= 2

\* C24: verify on a parsed token checks the final segment of raw as sig
\* against everything before the last dot as data; for a raw of three
\* segments data is the first two joined by a dot, and for the string signed
\* returned it is the string that was signed.
C24_SplitAtLastDot ==
  VerifiedRawWithDot
  => LET Checked(raw, segments) ==
           LET Parts(sig, data) ==
                 LET Same(expected) ==
                       /\ result.out.st = expected.st
                       /\ result.out.v = expected.v
                 IN  /\ Same(crypt_verify(sig, data, result.key[1],
                                          token[1].header.alg))
                     /\ Len(segments) = 3
                          => data = segments[1] \o <<Dot>> \o segments[2]
                     /\ (sent # None /\ raw = sent[1].out)
                          => data = SigningInput(sent[1].tok)
               Sig(sig) == Parts(sig, SubSeq(raw, 1, Len(raw) - Len(sig) - 1))
           IN  Sig(segments[Len(segments)])
     IN  Checked(token[1].raw[1], Split(token[1].raw[1]))

\* verify returned true for the three-segment string that signed made under
\* HS256.
C24_Witness ==
  /\ VerifiedRawWithDot
  /\ sent # None /\ token[1].raw[1] = sent[1].out
  /\ Len(Split(sent[1].out)) = 3
  /\ token[1].header.alg = "HS256"
  /\ result.key = Some(Secret1)
  /\ result.out.st = "Ok" /\ result.out.v = TRUE

\* The last operation decoded a string; the string it decoded.
Decoded == codec.op \in {"from_base64", "from_base64_input"}

DecodedRaw == IF codec.op = "from_base64" THEN segment[1] ELSE codec.raw

\* The first parse of from_base64: the bytes as the fixed fields.
FixedParse(kind, data) ==
  IF ~IsOk(data) THEN data
  ELSE IF ~IsUtf8(data.v) THEN Err("JSON")
  ELSE IF kind = "Header" THEN Header_deserialize(data.v)
  ELSE Payload_deserialize(data.v)

\* C25: from_base64 is an error when the parse of the bytes as the fixed
\* fields fails; when it succeeds the result is Ok with those fixed fields,
\* and the extension is what the parse of the same bytes as T gives, absent
\* when that parse fails; with T the unit type the result is the fixed
\* fields without extension.
C25_DoubleParse ==
  Decoded
  => LET Twice(c, data, ext) ==
           LET Fixed(fixed) ==
                 IF ~IsOk(fixed) THEN IsErr(codec.out)
                 ELSE /\ IsOk(codec.out)
                      /\ \A f \in FixedNames(c.kind) : codec.out.v[f] = fixed.v[f]
                      /\ codec.out.v[ext]
                           = (IF IsOk(data) THEN Extension_from_slice(c.T, data.v)
                              ELSE None)
                      /\ c.T.unit => codec.out.v[ext] = None
           IN  Fixed(FixedParse(c.kind, data))
     IN  Twice(component[1], decode_config(DecodedRaw),
               IF component[1].kind = "Header" THEN "headers" ELSE "claims")

\* A header object whose kid is a number was decoded as a Header with the
\* extension type that has a kid: the result is the header without extension.
C25_Witness ==
  /\ codec.op = "from_base64_input"
  /\ component[1].kind = "Header" /\ component[1].T = CustomHeaders
  /\ IsOk(ObjectOf(codec.raw))
  /\ Cardinality(Named(ObjectOf(codec.raw).v, FieldText("kid"))) = 1
  /\ ValueOf(ObjectOf(codec.raw).v, FieldText("kid")).k = "num"
  /\ IsOk(codec.out)
  /\ codec.out.v.alg = "HS256" /\ codec.out.v.headers = None

\* The nbf constraint of the payload holds at an instant: verify of the
\* payload without its exp.
NbfReached(instant) == Payload_verify([payload EXCEPT !.exp = None], instant)

\* The exp constraint of the payload fails at an instant: verify of the
\* payload without its nbf.
Expired(instant) == ~Payload_verify([payload EXCEPT !.nbf = None], instant)

\* C26: as the clock advances, an nbf constraint that holds keeps holding
\* and an exp constraint that fails keeps failing, and after a verify at an
\* instant where exp failed every verify returns false.
C26_ValidityIsMonotone ==
  [][ /\ NbfReached(now) => NbfReached(now')
      /\ Expired(now) => Expired(now')
      /\ (valid # None /\ Expired(valid[1].at))
           => (valid' # None /\ ~valid'[1].out) ]_vars

\* A payload whose window was open just after its nbf had expired at the
\* last verify, which returned false, and the clock has advanced since: nbf
\* still holds and exp still fails.
C26_Witness ==
  /\ payload.nbf # None /\ payload.exp # None
  /\ payload.exp[1] < 2^(IntBits - 1)
  /\ valid # None /\ ~valid[1].out
  /\ TimespecLt(valid[1].at, now)
  /\ NbfReached(valid[1].at) /\ Expired(valid[1].at)
  /\ ~Expired(Timespec(payload.nbf[1], 1))
  /\ NbfReached(now) /\ Expired(now)

\* C27: an exp of 2^(w-1) or more, w the width of the integers, makes verify
\* false at every instant, and an nbf of 2^(w-1) or more holds at every
\* instant: verify is then true exactly when exp is absent or in the future.
C27_WrapToNegative ==
  valid # None
  => /\ (payload.exp # None /\ payload.exp[1] >= 2^(IntBits - 1))
          => ~valid[1].out
     /\ ( /\ payload.nbf # None /\ payload.nbf[1] >= 2^(IntBits - 1)
          /\ payload.exp # None => payload.exp[1] < 2^(IntBits - 1) )
          => (valid[1].out
                <=> (payload.exp = None
                       \/ TimespecLt(valid[1].at, Timespec(payload.exp[1], 0))))

\* verify returned true at the first instant for a payload whose nbf is the
\* largest value.
C27_Witness ==
  /\ valid # None /\ valid[1].out
  /\ valid[1].at = Timespec(0, 0)
  /\ payload.nbf = Some(2^IntBits - 1)
  /\ payload.exp = Some(1)

\* C28: every pop on a set that is not empty leaves the set without its
\* last entry, also when decoding that entry as the type asked for fails and
\* pop returns an error.
C28_PopRemovesFirst ==
  [][ (jwk'.op = "pop" /\ Len(keys) > 0)
        => /\ keys' = SubSeq(keys, 1, Len(keys) - 1)
           /\ IsErr(jwk'.out) => Len(keys') = Len(keys) - 1 ]_vars

\* The RSA key pushed after an octet key was popped as an octet key: pop
\* returned an error and only the octet key remains.
C28_Witness ==
  /\ jwk.op = "pop" /\ jwk.top # None
  /\ jwk.top[1].T = "RsaParams" /\ jwk.top[1].key.kid = Foo
  /\ jwk.T = "OctetSequenceParams"
  /\ IsErr(jwk.out)
  /\ Len(keys) = 1 /\ pushed[1].key.kty = "OCT"
  /\ keys[1] = ValueOfKey(pushed[1])

\* ------------------------------------------------------------------------
\* Concurrent callers: every operation takes its arguments by reference or
\* by value and returns its result; nothing is static
\* ------------------------------------------------------------------------

\* The string signed returns for the HS256 token with the windowed payload,
\* and the token parse makes of it.
SignedSample ==
  Token_signed(Token_new(Header("HS256", None), WindowPayload), Secret1).v

ParsedSample == Token_parse(SignedSample).v

\* The invocations callers make: signed, parse, verify, from_rsa and
\* Payload::verify, each with its arguments.
Calls ==
  { [op |-> "signed", self |-> Token_new(Header("HS256", None), WindowPayload),
     key |-> Secret1],
    [op |-> "signed", self |-> Token_new(Header("RS256", None), Payload_default),
     key |-> Private1],
    [op |-> "parse", raw |-> SignedSample],
    [op |-> "parse", raw |-> Str(<<"a", "b", "c">>)],
    [op |-> "verify", self |-> ParsedSample, key |-> Secret1],
    [op |-> "from_rsa", rsa |-> Generated(19, 17, 5, 173)],
    [op |-> "payload_verify", self |-> WindowPayload],
    [op |-> "payload_verify", self |-> Payload_default] }

\* The invocations a third caller makes in between.
AsideCalls == {c \in Calls : c.op = "signed"}

\* An invocation whose verify also checks the time validity of the claims
\* at the instant it runs.  C21 tells it from Invoke.
InvokeCheckingTime(c, instant) ==
  CASE c.op = "signed" -> Token_signed(c.self, c.key)
    [] c.op = "parse" -> Token_parse(c.raw)
    [] c.op = "verify" ->
         LET Timed(out) ==
               IF IsOk(out) THEN Ok(out.v /\ Payload_verify(c.self.claims, instant))
               ELSE out
         IN  Timed(Token_verify(c.self, c.key))
    [] c.op = "from_rsa" -> from_rsa(c.rsa)
    [] c.op = "payload_verify" -> Ok(Payload_verify(c.self, instant))

\* What an invocation returns when it runs at an instant: only
\* Payload::verify reads the clock.
Invoke(c, instant) ==
  CASE c.op = "signed" -> Token_signed(c.self, c.key)
    [] c.op = "parse" -> Token_parse(c.raw)
    [] c.op = "verify" -> Token_verify(c.self, c.key)
    [] c.op = "from_rsa" -> from_rsa(c.rsa)
    [] c.op = "payload_verify" -> Ok(Payload_verify(c.self, instant))

InitCalls ==
  /\ token = None
  /\ wire = None
  /\ sent = None
  /\ result = Outcome("init", None, None, Ok(TRUE))
  /\ payload = Payload_default
  /\ now = Timespec(0, 0)
  /\ valid = None
  /\ CodecIdle
  /\ JwkIdle
  /\ call \in {Some(c) : c \in Calls}
  /\ pc = [c \in Callers |-> "idle"]
  /\ ret = [c \in Callers |-> None]
  /\ aside = None

\* A caller enters the operation with the arguments of call.
Begin(c) ==
  /\ pc[c] = "idle"
  /\ pc' = [pc EXCEPT ![c] = "running"]
  /\ UNCHANGED <<tokenVars, timeVars, codecVars, rsa, params, keys, pushed, jwk,
                 call, ret, aside>>

\* The operation returns to the caller.
Return(c) ==
  /\ pc[c] = "running"
  /\ pc' = [pc EXCEPT ![c] = "done"]
  /\ ret' = [ret EXCEPT ![c] = Some([at |-> now, out |-> Invoke(call[1], now)])]
  /\ UNCHANGED <<tokenVars, timeVars, codecVars, rsa, params, keys, pushed, jwk,
                 call, aside>>

\* A third caller invokes an operation of its own.
Aside(o) ==
  /\ aside' = Some([call |-> o, out |-> Invoke(o, now)])
  /\ UNCHANGED <<tokenVars, timeVars, codecVars, rsa, params, keys, pushed, jwk,
                 call, pc, ret>>

NextCalls ==
  \/ \E c \in Callers : Begin(c)
  \/ \E c \in Callers : Return(c)
  \/ \E o \in AsideCalls : Aside(o)
  \/ Tick

SpecCalls == InitCalls /\ [][NextCalls]_vars

\* Both callers have their result.
BothReturned == \A c \in Callers : pc[c] = "done"

\* The two callers got equal results.
EqualResults ==
  /\ ret[1][1].out.st = ret[2][1].out.st
  /\ ret[1][1].out.v = ret[2][1].out.v

====
